---- MODULE Spec2Model ----
(***************************************************************************)
(* A model of the comet source-to-C transpiler: the lexer                  *)
(* (src/lexer/lexer.go), the recursive-descent parser                      *)
(* (src/parser/parser.go), the context builder (src/context/builder.go)    *)
(* and the C emitter (src/unnamed/part_009).                               *)
(*                                                                         *)
(* Each stage is a function of its input.  A specification draws the       *)
(* input from a bounded set in its Init and applies the stage with its     *)
(* actions; the variables of the other stages stay at their defaults.      *)
(***************************************************************************)
EXTENDS Integers, Sequences, FiniteSets, TLC

VARIABLES
    \* lexer (Tokenize)
    text,         \* reader.text: the source, a sequence of runes
    index,        \* reader.index
    identifier,   \* the identifier in progress
    isComment,    \* 0 none, 1 line comment, 2 block comment
    tokens,       \* the token list built so far / returned
    lexState,     \* "idle" | "scan" | "done" | "error"
    lexErr,       \* the TokenizeError's row, column and character, or NoErr
    lateRead      \* build choice: is reader.index read after the consume() calls
                  \* that stand in the same argument list

VARIABLES
    \* parser (ParseTokens, parseExpression)
    ptokens,      \* the token list handed to the parser
    parseState,   \* "idle" | "expr" | "tokens" | "done"
    parseOut      \* what the parser returned: statement, heap, cursor, error

VARIABLES
    \* context builder (Grow) and emitter (CompileC)
    ast,          \* the tree handed to Grow
    ctxState,     \* "idle" | "tree" | "grown" | "compiled" | "regrown"
    ctxOut,       \* what Grow left: the error or none, and the tree as mutated
    cOut          \* what CompileC returned: the text, or the error

lexVars == <<text, index, identifier, isComment, tokens, lexState, lexErr, lateRead>>

parseVars == <<ptokens, parseState, parseOut>>

ctxVars == <<ast, ctxState, ctxOut, cOut>>

vars == <<lexVars, parseVars, ctxVars>>

-----------------------------------------------------------------------------
(***************************************************************************)
(* Small helpers on sequences.                                             *)
(***************************************************************************)

\* All sequences over S of length 0..n.
SeqsUpTo(S, n) == UNION {[1..k -> S] : k \in 0..n}

Min(a, b) == IF a < b THEN a ELSE b

Max(a, b) == IF a > b THEN a ELSE b

-----------------------------------------------------------------------------
(***************************************************************************)
(* LEXER  (src/lexer/lexer.go, src/lexer/tokens.go)                        *)
(***************************************************************************)

\* rune 0, what tokenReader.at answers outside the text
NUL == "NUL"

NoErr == [none |-> TRUE]

\* the context builder and the emitter have not been handed a tree
CtxIdle == ast = NoErr /\ ctxState = "idle" /\ ctxOut = NoErr /\ cOut = NoErr

\* unicode.IsDigit / unicode.IsLetter on the runes the inputs are drawn from.
\* "é" stands for the letters outside ASCII: one rune, two bytes of UTF-8.
Digits == {"0", "1", "2", "3", "4", "5", "6", "7", "8", "9"}

Letters == {"a", "b", "c", "d", "e", "f", "g", "h", "i", "j", "k", "l", "m",
            "n", "o", "p", "q", "r", "s", "t", "u", "v", "w", "x", "y", "z",
            "é"}

IsDigit(ch) == ch \in Digits

IsLetter(ch) == ch \in Letters

\* len(string(r)): the bytes of one rune in a Go string
RuneLen(ch) == IF ch = "é" THEN 2 ELSE 1

\* len(s) of a Go string: its bytes, not its runes
RECURSIVE ByteLen(_)
ByteLen(s) == IF s = <<>> THEN 0 ELSE RuneLen(Head(s)) + ByteLen(Tail(s))

\* tokenReader.at, on a text t (0-based)
at(t, i) == IF i < 0 \/ i >= Len(t) THEN NUL ELSE t[i + 1]

\* isWhitespace with the tab forgotten
isWhitespaceNoTab(ch) == ch \in {" ", "\n", "\r"}

isWhitespace(ch) == ch \in {" ", "\n", "\r", "\t"}

\* string(runes): the Go string of a sequence of runes
RECURSIVE Join(_)
Join(s) == IF s = <<>> THEN "" ELSE Head(s) \o Join(Tail(s))

\* lexer.Keywords
KeywordNames == {"null", "var", "const", "fn", "true", "false", "import", "native"}

Keywords(name) ==
    CASE name = "null" -> "Null"
      [] name = "var" -> "Var"
      [] name = "const" -> "Const"
      [] name = "fn" -> "Function"
      [] name = "true" -> "Boolean"
      [] name = "false" -> "Boolean"
      [] name = "import" -> "Import"
      [] name = "native" -> "Native"

\* Token{Type, Value, Trace: &SourceTrace{Index}} ; Row and Column are 0 until
\* fillTraces sets them.
Token(type, value, idx) ==
    [Type |-> type, Value |-> Join(value), Index |-> idx, Row |-> 0, Column |-> 0]

\* safelyEndIdentifier: the token list after the flush (the identifier is
\* emptied by every caller's next state).
safelyEndIdentifier(ident, toks, idx) ==
    IF Len(ident) = 0 THEN toks
    ELSE IF Join(ident) \in KeywordNames
         THEN Append(toks, Token(Keywords(Join(ident)), ident, idx - ByteLen(ident)))
         ELSE Append(toks, Token("Identifier", ident, idx - ByteLen(ident)))

\* appendType
appendType(tokenType, ident, toks, idx, value) ==
    Append(safelyEndIdentifier(ident, toks, idx), Token(tokenType, value, idx))

\* str: [tok, index] for a string opened at `start`
RECURSIVE strLoop(_, _, _)
strLoop(t, i, value) ==
    LET ch == at(t, i) IN
    IF i >= Len(t) THEN [value |-> value, index |-> i]
    ELSE IF (ch = "\"" /\ at(t, i - 1) # "\\")
            \/ (ch = "\"" /\ at(t, i - 1) = "\\" /\ at(t, i - 2) = "\\")
         THEN [value |-> value, index |-> i + 1]
         ELSE strLoop(t, i + 1, Append(value, ch))

str(t, start) ==
    LET r == strLoop(t, start + 1, <<>>) IN
    [tok |-> Token("String", r.value, start), index |-> r.index]

\* number: [tok, index] for a number begun at `start`
RECURSIVE numberLoop(_, _, _, _, _)
numberLoop(t, pos, i, dots, value) ==
    LET ch == at(t, pos) IN
    IF i = 0 /\ ch = "-" THEN numberLoop(t, pos + 1, i + 1, dots, Append(value, ch))
    ELSE IF dots = 0 /\ ch = "." THEN numberLoop(t, pos + 1, i + 1, dots + 1, Append(value, ch))
    ELSE IF IsDigit(ch) THEN numberLoop(t, pos + 1, i + 1, dots, Append(value, ch))
    ELSE [value |-> value, index |-> pos]

number(t, start) ==
    LET r == numberLoop(t, start, 0, 0, <<>>) IN
    [tok |-> Token("Number", r.value, start), index |-> r.index]

\* getLineFeeds: 0, then the index of every line feed
getLineFeeds(t) ==
    LET RECURSIVE collect(_, _)
        collect(i, acc) ==
            IF i >= Len(t) THEN acc
            ELSE collect(i + 1, IF t[i + 1] = "\n" THEN Append(acc, i) ELSE acc)
    IN collect(0, <<0>>)

\* getLocationOfIndex: <<row, col>>
getLocationOfIndex(idx, lineFeeds) ==
    LET n == Len(lineFeeds)
        RECURSIVE find(_)
        find(i) ==
            IF i >= n THEN <<-1, -1>>
            ELSE LET lf == lineFeeds[i + 1] IN
                 IF lf <= idx /\ (i = n - 1 \/ lineFeeds[i + 2] > idx)
                 THEN <<i + 1, IF i = 0 THEN idx - lf + 1 ELSE idx - lf>>
                 ELSE find(i + 1)
    IN find(0)

\* fillTraces
fillTraces(toks, t) ==
    LET lineFeeds == getLineFeeds(t) IN
    [k \in 1..Len(toks) |->
        LET loc == getLocationOfIndex(toks[k].Index, lineFeeds) IN
        [toks[k] EXCEPT !.Row = loc[1], !.Column = loc[2]]]

\* The index argument of appendType(T, &identifier, &tokens, reader.index,
\* string(reader.consume()) + ...): Go orders the calls of an argument list but
\* not the read of reader.index against them, so a build passes either the
\* index before the n consume() calls or the one after them.
argIndex(i, n, late) == IF late THEN i + n ELSE i

\* The single-character punctuation and operator rules of the loop, in order.
PunctType(ch) ==
    CASE ch = "\n" -> "LF"
      [] ch = ";" -> "Semicolon"
      [] ch = ":" -> "Colon"
      [] ch = "," -> "Comma"
      [] ch = "(" -> "OpenParenthesis"
      [] ch = ")" -> "CloseParenthesis"
      [] ch = "{" -> "OpenCurlyBracket"
      [] ch = "}" -> "CloseCurlyBracket"
      [] ch = "[" -> "OpenSquareBracket"
      [] ch = "]" -> "CloseSquareBracket"
      [] ch = "+" -> "Addition"
      [] ch = "-" -> "Subtraction"
      [] ch = "*" -> "Multiplication"
      [] ch = "/" -> "Division"
      [] ch = "%" -> "Modulus"

PunctChars == {"\n", ";", ":", ",", "(", ")", "{", "}", "[", "]",
               "+", "-", "*", "/", "%"}

\* One iteration of the loop of Tokenize on the scanner state
\* s = [index, identifier, isComment, tokens]; the result adds `err`.
scanOnce(t, s, late) ==
    LET i   == s.index
        ch  == at(t, i)
        nx  == at(t, i + 1)
        nx2 == at(t, i + 2)
        id  == s.identifier
        ok(ni, nid, nc, ntoks) ==
            [index |-> ni, identifier |-> nid, isComment |-> nc,
             tokens |-> ntoks, err |-> FALSE]
        emit(type, n, value) ==
            ok(i + n, <<>>, s.isComment,
               appendType(type, id, s.tokens, argIndex(i, n, late), value))
    IN
    IF ch = "/" /\ nx = "/"
        THEN ok(i + 2, <<>>, 1, safelyEndIdentifier(id, s.tokens, i))
    ELSE IF ch = "/" /\ nx = "*"
        THEN ok(i + 2, <<>>, 2, safelyEndIdentifier(id, s.tokens, i))
    ELSE IF s.isComment = 1 /\ ch = "\n"
        THEN ok(i + 1, id, 0, s.tokens)
    ELSE IF s.isComment = 2 /\ ch = "*" /\ nx = "/"
        THEN ok(i + 2, id, 0, s.tokens)
    ELSE IF s.isComment > 0
        THEN ok(i + 1, id, s.isComment, s.tokens)
    ELSE IF ch = "\""
        THEN LET r == str(t, i) IN
             ok(r.index, <<>>, 0,
                Append(safelyEndIdentifier(id, s.tokens, i), r.tok))
    ELSE IF ch = "-" /\ nx = ">"
        THEN emit("ArrowRight", 2, <<ch, nx>>)
    ELSE IF Len(id) = 0 /\ (IsDigit(ch) \/ ch = "." \/ ch = "-")
        THEN LET r == number(t, i) IN
             ok(r.index, id, 0, Append(s.tokens, r.tok))
    ELSE IF ch \in PunctChars
        THEN emit(PunctType(ch), 1, <<ch>>)
    ELSE IF ch = "=" /\ nx = "="
        THEN emit("CompareEquals", 2, <<ch, nx>>)
    ELSE IF ch = "=" /\ nx = "<"
        THEN emit("CompareSmaller", 2, <<ch, nx>>)
    ELSE IF ch = "=" /\ nx = ">"
        THEN emit("CompareBigger", 2, <<ch, nx>>)
    ELSE IF ch = "="
        THEN emit("Equals", 1, <<ch>>)
    ELSE IF ch = "." /\ nx = "." /\ nx2 = "."
        THEN emit("Variadic", 3, <<ch, nx, nx2>>)
    ELSE IF ch = "." /\ nx = "." /\ nx2 = "?"
        THEN emit("VariadicNoValidate", 3, <<ch, nx, nx2>>)
    ELSE IF isWhitespace(ch)
        THEN ok(i + 1, <<>>, 0, safelyEndIdentifier(id, s.tokens, i))
    ELSE IF IsLetter(ch) \/ (Len(id) # 0 /\ (IsDigit(ch) \/ ch = "."))
        THEN ok(i + 1, Append(id, ch), 0, s.tokens)
    ELSE [index |-> i, identifier |-> id, isComment |-> s.isComment,
          tokens |-> <<>>, err |-> TRUE]

\* The statements of Tokenize after its loop.
tokenizeEnd(t, s) ==
    fillTraces(Append(safelyEndIdentifier(s.identifier, s.tokens, Len(t)),
                      Token("EOF", <<>>, Len(t) - 1)), t)

LexIdle ==
    /\ text = <<>> /\ index = 0 /\ identifier = <<>> /\ isComment = 0
    /\ tokens = <<>> /\ lexState = "idle" /\ lexErr = NoErr /\ lateRead = FALSE

\* Tokenize starts on a source drawn from the runes of A, at most n long.
InitLexOver(A, n) ==
    /\ CtxIdle
    /\ text \in SeqsUpTo(A, n)
    /\ index = 0 /\ identifier = <<>> /\ isComment = 0
    /\ tokens = <<>> /\ lexState = "scan" /\ lexErr = NoErr
    /\ lateRead \in BOOLEAN
    /\ ptokens = <<>> /\ parseState = "idle" /\ parseOut = NoErr

\* One iteration of the for loop of Tokenize (lexer.go 100-286).
TokenizeStep ==
    /\ lexState = "scan"
    /\ index < Len(text)
    /\ LET r == scanOnce(text,
                         [index |-> index, identifier |-> identifier,
                          isComment |-> isComment, tokens |-> tokens],
                         lateRead)
           loc == getLocationOfIndex(index, getLineFeeds(text))
       IN /\ index' = r.index
          /\ identifier' = r.identifier
          /\ isComment' = r.isComment
          /\ tokens' = r.tokens
          /\ lexState' = IF r.err THEN "error" ELSE "scan"
          /\ lexErr' = IF r.err
                       THEN [row |-> loc[1], col |-> loc[2], char |-> at(text, index)]
                       ELSE lexErr
    /\ UNCHANGED <<text, lateRead>>
    /\ UNCHANGED parseVars
    /\ UNCHANGED ctxVars

\* The loop's exit (reader.isDone()) and the tail of Tokenize (lexer.go 288-300).
TokenizeEnd ==
    /\ lexState = "scan"
    /\ index >= Len(text)
    /\ tokens' = tokenizeEnd(text, [identifier |-> identifier, tokens |-> tokens])
    /\ identifier' = <<>>
    /\ lexState' = "done"
    /\ UNCHANGED <<text, index, isComment, lexErr, lateRead>>
    /\ UNCHANGED parseVars
    /\ UNCHANGED ctxVars

NextLex == TokenizeStep \/ TokenizeEnd

-----------------------------------------------------------------------------
(***************************************************************************)
(* PARSER  (src/parser/parser.go; the node model of src/unnamed/part_002)  *)
(*                                                                         *)
(* Statement values hold pointers (Left, Right, RunScope, the elements of  *)
(* Children, Identifiers and Expressions).  A pointer is an address of the *)
(* heap, a sequence of Statement values; 0 is nil.  Taking the address of  *)
(* a local variable allocates its cell.                                    *)
(***************************************************************************)

\* StatementType; the literal kinds are named ...Expression in parser.go and
\* ...Literal in the context builder's version of the same enumeration.
Root == "Root"
NullLiteral == "NullLiteral"
NumberLiteral == "NumberLiteral"
StringLiteral == "StringLiteral"
BooleanLiteral == "BooleanLiteral"
IdentifierExpression == "IdentifierExpression"
BinaryExpression == "BinaryExpression"
FunctionExpression == "FunctionExpression"
FunctionDeclaration == "FunctionDeclaration"
VariableDeclaration == "VariableDeclaration"
ScopeDeclaration == "ScopeDeclaration"
VariableAssignment == "VariableAssignment"
ImportStatement == "ImportStatement"
MemoryDeAllocation == "MemoryDeAllocation"
NumberExpression == NumberLiteral
StringExpression == StringLiteral
BooleanExpression == BooleanLiteral
\* Statement{Type: -1}: the ignored line feed or semicolon
SkipStatement == "Skip(-1)"

\* BinaryOperation
AdditionOperation == "AdditionOperation"
SubtractionOperation == "SubtractionOperation"
MultiplicationOperation == "MultiplicationOperation"
DivisionOperation == "DivisionOperation"
ModulusOperation == "ModulusOperation"

\* TypeId; Void is 0, the zero value of ActualType.Id
Void == "Void"
Bool == "Bool"
Custom == "Custom"
Int8 == "Int8"
UnsignedInt8 == "UnsignedInt8"
Int16 == "Int16"
UnsignedInt16 == "UnsignedInt16"
Float32 == "Float32"
Int32 == "Int32"
UnsignedInt32 == "UnsignedInt32"
Float64 == "Float64"
Complex64 == "Complex64"
Complex128 == "Complex128"
Int64 == "Int64"
UnsignedInt64 == "UnsignedInt64"

\* ActualType{Id: id}
ActualType(id) == [Id |-> id, CustomName |-> ""]

\* analysis.SourceTrace{} : the zero trace of a node
ZeroTrace == [Index |-> 0, Row |-> 0, Column |-> 0]

\* Statement{} : every field at its zero value (Type 0 is Root)
Statement0 ==
    [Type |-> Root, Value |-> "", Left |-> 0, Right |-> 0,
     Operator |-> AdditionOperation, Children |-> <<>>,
     Identifiers |-> <<>>, Expressions |-> <<>>, Types |-> <<>>,
     ArgNames |-> <<>>, ArgTypes |-> <<>>, RunScope |-> 0,
     Constant |-> FALSE, Native |-> FALSE, Trace |-> ZeroTrace]

\* lexer.Token{} : Type 0 is EOF, the Trace pointer is nil
ZeroToken == [Type |-> "EOF", Value |-> ""]

hasTrace(token) == "Index" \in DOMAIN token

traceOf(token) ==
    [Index |-> token.Index, Row |-> token.Row, Column |-> token.Column]

\* tokenParser.at / isDone
pat(toks, i) == IF i < 0 \/ i >= Len(toks) THEN ZeroToken ELSE toks[i + 1]

pIsDone(toks, i) == i >= Len(toks) \/ pat(toks, i).Type = "EOF"

\* parseError
parseError(token, message) ==
    IF ~hasTrace(token) THEN [message |-> "No trace found for error"]
    ELSE [message |-> message, row |-> token.Row, col |-> token.Column]

\* What a parse function returns: (Statement, error), with the cursor and the
\* heap it leaves.
POk(st, i, h) == [ok |-> TRUE, st |-> st, index |-> i, heap |-> h, err |-> NoErr]

PFail(err, i, h) == [ok |-> FALSE, st |-> Statement0, index |-> i, heap |-> h, err |-> err]

\* `left = mutableLeft` on the enclosing variable: the cell leftPtr names is
\* overwritten with the node that points at it
rebindLeftInPlace(h, leftPtr, mutableLeft) ==
    [heap |-> [h EXCEPT ![leftPtr] = mutableLeft], ptr |-> leftPtr]

\* `left := mutableLeft ; leftPtr = &left` (parser.go 193-194, 246-247): a new
\* variable per iteration, whose address the next node takes as its Left
rebindLeft(h, leftPtr, mutableLeft) ==
    [heap |-> Append(h, mutableLeft), ptr |-> Len(h) + 1]

\* `v, err := f(...)` followed by `if err != nil { return Statement{}, err }`:
\* what follows runs on the value of a call that succeeded
OnOk(r, K(_)) == IF ~r.ok THEN PFail(r.err, r.index, r.heap) ELSE K(r)

\* `v := f(...)`: what follows runs on the value
With(v, K(_)) == K(v)

RECURSIVE parseExpression(_, _, _)
RECURSIVE parseAdditiveExpression(_, _, _)
RECURSIVE additiveLoop(_, _, _, _, _)
RECURSIVE parseMultiplicativeExpression(_, _, _)
RECURSIVE multiplicativeLoop(_, _, _, _, _)
RECURSIVE parsePrimaryExpression(_, _, _)

\* a primary expression that accepts a number and leaves the cursor on it
parsePrimaryExpressionStay(toks, i, h) ==
    LET token == pat(toks, i) IN
    IF token.Type = "Identifier"
        THEN POk([Statement0 EXCEPT !.Type = IdentifierExpression,
                                    !.Value = token.Value], i + 1, h)
    ELSE IF token.Type = "Number"
        THEN POk([Statement0 EXCEPT !.Type = NumberExpression,
                                    !.Value = token.Value], i, h)
    ELSE PFail(parseError(token, "Unexpected token, expected expression"), i, h)

\* parsePrimaryExpression (254-305)
parsePrimaryExpression(toks, i, h) ==
    LET token == pat(toks, i) IN
    IF token.Type = "Identifier"
        THEN POk([Statement0 EXCEPT !.Type = IdentifierExpression,
                                    !.Value = token.Value], i + 1, h)
    ELSE IF token.Type = "Number"
        THEN POk([Statement0 EXCEPT !.Type = NumberExpression,
                                    !.Value = token.Value], i + 1, h)
    ELSE IF token.Type = "String"
        THEN POk([Statement0 EXCEPT !.Type = StringExpression,
                                    !.Value = token.Value], i + 1, h)
    ELSE IF token.Type = "Boolean"
        THEN POk([Statement0 EXCEPT !.Type = BooleanExpression,
                                    !.Value = token.Value], i + 1, h)
    ELSE IF token.Type = "OpenParenthesis"
        THEN With(parseExpression(toks, i + 1, h), LAMBDA w :
             IF ~w.ok
                 \* `return Statement{}, nil`: the error is dropped
                 THEN POk(Statement0, w.index, w.heap)
             ELSE IF pat(toks, w.index).Type # "CloseParenthesis"
                 THEN PFail(parseError(pat(toks, w.index), "Parenthesis not closed"),
                            w.index, w.heap)
             ELSE POk(w.st, w.index + 1, w.heap))
    ELSE PFail(parseError(token, "Unexpected token, expected expression"), i, h)

\* Statement{Type: BinaryExpression, Left, Right, Operator}
binaryNode(leftPtr, rightPtr, operation) ==
    [Statement0 EXCEPT !.Type = BinaryExpression, !.Left = leftPtr,
                       !.Right = rightPtr, !.Operator = operation]

\* the for loop of parseMultiplicativeExpression
multiplicativeLoop(toks, i, h, mutableLeft, leftPtr) ==
    LET token == pat(toks, i) IN
    IF pIsDone(toks, i) THEN POk(mutableLeft, i, h)
    ELSE IF token.Type \notin {"Multiplication", "Division", "Modulus"}
        THEN POk(mutableLeft, i, h)
    ELSE OnOk(parsePrimaryExpression(toks, i + 1, h), LAMBDA right :
         With(Append(right.heap, right.st), LAMBDA h1 :
         With(binaryNode(leftPtr, Len(h1),
                         IF token.Type = "Division" THEN DivisionOperation
                         ELSE IF token.Type = "Modulus" THEN ModulusOperation
                         ELSE MultiplicationOperation), LAMBDA node :
         With(rebindLeft(h1, leftPtr, node), LAMBDA nl :
         multiplicativeLoop(toks, right.index, nl.heap, node, nl.ptr)))))

parseMultiplicativeExpression(toks, i, h) ==
    OnOk(parsePrimaryExpression(toks, i, h), LAMBDA left :
    With(Append(left.heap, left.st), LAMBDA h1 :
    multiplicativeLoop(toks, left.index, h1, left.st, Len(h1))))

\* the for loop of parseAdditiveExpression
additiveLoop(toks, i, h, mutableLeft, leftPtr) ==
    LET token == pat(toks, i) IN
    IF pIsDone(toks, i) THEN POk(mutableLeft, i, h)
    ELSE IF token.Type \notin {"Addition", "Subtraction"}
        THEN POk(mutableLeft, i, h)
    ELSE OnOk(parseMultiplicativeExpression(toks, i + 1, h), LAMBDA right :
         With(Append(right.heap, right.st), LAMBDA h1 :
         With(binaryNode(leftPtr, Len(h1),
                         IF token.Type # "Addition" THEN SubtractionOperation
                         ELSE AdditionOperation), LAMBDA node :
         With(rebindLeft(h1, leftPtr, node), LAMBDA nl :
         additiveLoop(toks, right.index, nl.heap, node, nl.ptr)))))

parseAdditiveExpression(toks, i, h) ==
    OnOk(parseMultiplicativeExpression(toks, i, h), LAMBDA left :
    With(Append(left.heap, left.st), LAMBDA h1 :
    additiveLoop(toks, left.index, h1, left.st, Len(h1))))

parseExpression(toks, i, h) == parseAdditiveExpression(toks, i, h)

\* parseType: [ok, type, err]
parseType(token) ==
    IF token.Type # "Identifier"
        THEN [ok |-> FALSE, type |-> ActualType(Void),
              err |-> parseError(token, "Expected type")]
    ELSE LET v == token.Value
             id == CASE v = "void" -> Void
                     [] v = "int8" -> Int8
                     [] v = "int16" -> Int16
                     [] v \in {"int32", "int"} -> Int32
                     [] v = "int64" -> Int64
                     [] v = "uint8" -> UnsignedInt8
                     [] v = "uint16" -> UnsignedInt16
                     [] v = "uint32" -> UnsignedInt32
                     [] v = "uint64" -> UnsignedInt64
                     [] v \in {"float32", "float"} -> Float32
                     [] v \in {"float64", "double"} -> Float64
                     [] v = "complex64" -> Complex64
                     [] v = "complex128" -> Complex128
                     [] v = "bool" -> Bool
                     [] OTHER -> Custom
         IN [ok |-> TRUE,
             type |-> [Id |-> id, CustomName |-> IF id = Custom THEN v ELSE ""],
             err |-> NoErr]

\* demandNewLineOrSemicolon
demandNewLineOrSemicolon(toks, i, h, statement) ==
    LET current == pat(toks, i) IN
    IF current.Type # "LF" /\ current.Type # "Semicolon"
        THEN PFail(parseError(current, "Expected new line or semicolon"), i, h)
        ELSE POk(statement, i, h)

\* What a list loop returns: the list, and the token `current` was left at.
LOk(list, i, h, current) ==
    [ok |-> TRUE, list |-> list, index |-> i, heap |-> h, current |-> current, err |-> NoErr]

LFail(err, i, h) ==
    [ok |-> FALSE, list |-> <<>>, index |-> i, heap |-> h, current |-> ZeroToken, err |-> err]

\* OnOk inside a list loop
OnOkL(r, K(_)) == IF ~r.ok THEN LFail(r.err, r.index, r.heap) ELSE K(r)

\* the loop over `(` identifier {`,` identifier} `)` of parseVariableDeclaration
\* (463-501) and, word for word, of parseVariableAssign (316-354); `current` is
\* the token the variable holds when the iteration starts
RECURSIVE identifierListLoop(_, _, _, _, _)
identifierListLoop(toks, i, h, current, ids) ==
    IF current.Type = "CloseParenthesis" /\ Len(ids) > 0
        THEN LFail(parseError(current, "Unexpected token, expected identifier"), i, h)
    ELSE IF pat(toks, i).Type # "Identifier"
        THEN LFail(parseError(pat(toks, i), "Unexpected token, expected identifier"), i, h)
    ELSE OnOkL(parsePrimaryExpression(toks, i, h), LAMBDA r :
         With(Append(r.heap, r.st), LAMBDA h1 :
         With(pat(toks, r.index), LAMBDA nxt :
         IF nxt.Type = "CloseParenthesis"
             THEN LOk(Append(ids, Len(h1)), r.index + 1, h1, nxt)
         ELSE IF nxt.Type = "Comma"
             THEN identifierListLoop(toks, r.index + 1, h1, nxt, Append(ids, Len(h1)))
         ELSE LFail(parseError(nxt, "Unexpected token"), r.index, h1))))

\* the identifiers of a declaration or assignment, the cursor on the first of
\* them or on the `(` (parser.go 310-371, 457-517)
parseIdentifiers(toks, i, h) ==
    LET current == pat(toks, i) IN
    IF current.Type = "OpenParenthesis"
        THEN identifierListLoop(toks, i + 1, h, current, <<>>)
    ELSE IF current.Type # "Identifier"
        THEN LFail(parseError(current, "Expected identifier"), i, h)
    ELSE OnOkL(parsePrimaryExpression(toks, i, h), LAMBDA r :
         With(Append(r.heap, r.st), LAMBDA h1 :
         LOk(<<Len(h1)>>, r.index, h1, current)))

\* the loop over `(` expression {`,` expression} `)` (389-414, 618-643)
RECURSIVE expressionListLoop(_, _, _, _, _)
expressionListLoop(toks, i, h, exprs, message) ==
    OnOkL(parseExpression(toks, i, h), LAMBDA e :
    With(Append(e.heap, e.st), LAMBDA h1 :
    With(pat(toks, e.index), LAMBDA nxt :
    IF nxt.Type = "CloseParenthesis"
        THEN LOk(Append(exprs, Len(h1)), e.index + 1, h1, nxt)
    ELSE IF nxt.Type = "Comma"
        THEN expressionListLoop(toks, e.index + 1, h1, Append(exprs, Len(h1)), message)
    ELSE LFail(parseError(nxt, message), e.index, h1))))

\* the expressions after `=`, the cursor on the token after it (385-432,
\* 614-661); nIds is len(varIdentifiers)
parseExpressions(toks, i, h, nIds, message) ==
    LET current == pat(toks, i) IN
    IF current.Type = "OpenParenthesis"
        THEN OnOkL(expressionListLoop(toks, i + 1, h, <<>>, message), LAMBDA l :
             IF nIds = 1 /\ Len(l.list) > 1
                 THEN LFail(parseError(l.current,
                            "Cannot assign multiple expressions to a single variable"),
                            l.index, l.heap)
                 ELSE l)
    ELSE IF nIds > 1
        THEN LFail(parseError(current,
                   "Cannot assign one expression to multiple variables"), i, h)
    ELSE OnOkL(parseExpression(toks, i, h), LAMBDA e :
         With(Append(e.heap, e.st), LAMBDA h1 :
         LOk(<<Len(h1)>>, e.index, h1, current)))

\* parseVariableAssign
parseVariableAssign(toks, i, h) ==
    OnOk(parseIdentifiers(toks, i, h), LAMBDA ids :
    IF pat(toks, ids.index).Type # "Equals"
        THEN PFail(parseError(pat(toks, ids.index), "Unknown operation on variable"),
                   ids.index, ids.heap)
    ELSE OnOk(parseExpressions(toks, ids.index + 1, ids.heap, Len(ids.list),
                               "Unexpected token"), LAMBDA es :
         IF Len(ids.list) # Len(es.list)
             THEN PFail(parseError(es.current, "Identifier and expression count mismatch"),
                        es.index, es.heap)
         ELSE demandNewLineOrSemicolon(toks, es.index, es.heap,
                  [Statement0 EXCEPT !.Type = VariableAssignment,
                                     !.Identifiers = ids.list,
                                     !.Expressions = es.list])))

\* the loop over `(` type {`,` type} `)` of parseVariableDeclaration (535-573)
RECURSIVE typeListLoop(_, _, _, _)
typeListLoop(toks, i, h, types) ==
    With(parseType(pat(toks, i)), LAMBDA t :
    With(pat(toks, i + 1), LAMBDA nxt :
    IF ~t.ok THEN LFail(t.err, i, h)
    ELSE IF t.type.Id = Void
        THEN LFail(parseError(pat(toks, i), "Cannot declare variable as void"), i, h)
    ELSE IF nxt.Type = "CloseParenthesis"
        THEN LOk(Append(types, t.type), i + 2, h, nxt)
    ELSE IF nxt.Type = "Comma"
        THEN typeListLoop(toks, i + 2, h, Append(types, t.type))
    ELSE LFail(parseError(nxt, "Unexpected token, expecting ) or ,"), i + 1, h)))

\* the declared types, the cursor on `:` or, without one, on what follows the
\* identifiers (519-604)
parseDeclaredTypes(toks, i, h, nIds) ==
    LET current == pat(toks, i)
        c1 == pat(toks, i + 1)
    IN
    IF current.Type # "Colon"
        THEN LOk([k \in 1..nIds |-> ActualType(Void)], i, h, current)
    ELSE IF c1.Type = "OpenParenthesis"
        THEN OnOkL(typeListLoop(toks, i + 2, h, <<>>), LAMBDA l :
             IF nIds = 1 /\ Len(l.list) > 1
                 THEN LFail(parseError(l.current,
                            "Cannot assign multiple types to a single variable"),
                            l.index, l.heap)
                 ELSE l)
    ELSE IF c1.Type # "Identifier"
        THEN LFail(parseError(c1, "Expected type for implicit variable declaration"),
                   i + 1, h)
    ELSE With(parseType(c1), LAMBDA t :
         IF ~t.ok THEN LFail(t.err, i + 1, h)
         ELSE IF t.type.Id = Void
             THEN LFail(parseError(c1, "Cannot declare variable as void"), i + 1, h)
         ELSE LOk(<<t.type>>, i + 2, h, c1))

\* `selfAssignedType := ActualType{}` (522): never assigned afterwards
selfAssignedType == ActualType(Void)

\* a single declared type left as it is
replicateTypeNever(types, nExprs) == types

\* `if len(varTypes) == 1 { ... append(varTypes, varTypes[0]) }` (679-684)
replicateType(types, nExprs) ==
    IF Len(types) = 1 /\ nExprs - 1 > 0
        THEN [k \in 1..nExprs |-> types[1]]
        ELSE types

\* the checks and the result of parseVariableDeclaration (664-692)
finishDeclaration(toks, isConstant, ids, ts, es) ==
    LET current == pat(toks, es.index) IN
    IF selfAssignedType.Id = Void /\ Len(es.list) = 0
        THEN PFail(parseError(current,
                   "Implicit declaration of type needed when not assigning a value"),
                   es.index, es.heap)
    ELSE IF Len(ids.list) # Len(es.list) /\ Len(es.list) > 0
        THEN PFail(parseError(current, "Identifier and expression count mismatch"),
                   es.index, es.heap)
    ELSE IF Len(ids.list) # Len(ts.list) /\ Len(ts.list) > 1
        THEN PFail(parseError(current, "Identifier and type count mismatch"),
                   es.index, es.heap)
    ELSE demandNewLineOrSemicolon(toks, es.index, es.heap,
             [Statement0 EXCEPT !.Type = VariableDeclaration,
                                !.Identifiers = ids.list,
                                !.Expressions = es.list,
                                !.Types = replicateType(ts.list, Len(es.list)),
                                !.Constant = isConstant])

\* parseVariableDeclaration
parseVariableDeclaration(toks, i, h) ==
    OnOk(parseIdentifiers(toks, i + 1, h), LAMBDA ids :
    OnOk(parseDeclaredTypes(toks, ids.index, ids.heap, Len(ids.list)), LAMBDA ts :
    OnOk(IF pat(toks, ts.index).Type = "Equals"
             THEN parseExpressions(toks, ts.index + 1, ts.heap, Len(ids.list),
                                   "Unexpected token, expecting ) or ,")
             ELSE LOk(<<>>, ts.index, ts.heap, pat(toks, ts.index)), LAMBDA es :
    finishDeclaration(toks, pat(toks, i).Type = "Const", ids, ts, es))))

\* the loop of getOrMultiGetExpr over `(` expression {`,` expression} `)`;
\* the list holds Statement values, not pointers
RECURSIVE multiGetLoop(_, _, _, _)
multiGetLoop(toks, i, h, result) ==
    IF pat(toks, i).Type = "CloseParenthesis"
        THEN LFail(parseError(pat(toks, i), "Unexpected token in ()"), i + 1, h)
    ELSE OnOkL(parseExpression(toks, i, h), LAMBDA parsed :
         With(pat(toks, parsed.index), LAMBDA nxt :
         IF nxt.Type = "CloseParenthesis"
             THEN LOk(Append(result, parsed.st), parsed.index + 1, parsed.heap, nxt)
         ELSE IF nxt.Type = "Comma"
             THEN multiGetLoop(toks, parsed.index + 1, parsed.heap,
                               Append(result, parsed.st))
         ELSE LFail(parseError(nxt, "Unexpected token in ()"),
                    parsed.index, parsed.heap)))

\* getOrMultiGetExpr
getOrMultiGetExpr(toks, i, h) ==
    IF pat(toks, i).Type = "OpenParenthesis"
        THEN multiGetLoop(toks, i + 1, h, <<>>)
    ELSE OnOkL(parseExpression(toks, i, h), LAMBDA parsed :
         LOk(<<parsed.st>>, parsed.index, parsed.heap, pat(toks, i)))

\* parseImport
parseImport(toks, i, h) ==
    LET token == pat(toks, i)
        isNative == pat(toks, i + 1).Type = "Native"
    IN OnOk(getOrMultiGetExpr(toks, IF isNative THEN i + 2 ELSE i + 1, h), LAMBDA values :
       IF \E k \in 1..Len(values.list) : values.list[k].Type # StringExpression
           THEN PFail(parseError(token, "Expecting strings"), values.index, values.heap)
       ELSE demandNewLineOrSemicolon(toks, values.index, values.heap,
                [Statement0 EXCEPT !.Type = ImportStatement,
                                   !.ArgNames = [k \in 1..Len(values.list) |->
                                                     values.list[k].Value],
                                   !.Native = isNative]))

\* What the argument loop of parseFunction returns.
AOk(names, types, i) ==
    [ok |-> TRUE, names |-> names, types |-> types, index |-> i, err |-> NoErr]

AFail(err, i) ==
    [ok |-> FALSE, names |-> <<>>, types |-> <<>>, index |-> i, err |-> err]

\* the argument loop of parseFunction (824-871), the cursor after `(`
RECURSIVE fnArgsLoop(_, _, _, _)
fnArgsLoop(toks, i, argNames, argTypes) ==
    LET current == pat(toks, i)
        name == pat(toks, i + 1)
        nxt == pat(toks, i + 2)
    IN
    IF current.Type = "CloseParenthesis" THEN AOk(argNames, argTypes, i + 1)
    ELSE With(parseType(current), LAMBDA argType :
         IF ~argType.ok THEN AFail(argType.err, i)
         ELSE IF name.Type # "Identifier"
             THEN AFail(parseError(name, "Expected identifier for argument name"), i + 1)
         ELSE IF nxt.Type = "CloseParenthesis"
             THEN AOk(Append(argNames, name.Value), Append(argTypes, argType.type), i + 3)
         ELSE IF nxt.Type = "Comma"
             THEN fnArgsLoop(toks, i + 3, Append(argNames, name.Value),
                             Append(argTypes, argType.type))
         ELSE AFail(parseError(nxt, "Unexpected token in function argument declaration"),
                    i + 2))

\* the return type loop of parseFunction (888-924), the cursor after `(`
RECURSIVE fnReturnTypesLoop(_, _, _)
fnReturnTypesLoop(toks, i, returnTypes) ==
    LET current == pat(toks, i)
        nxt == pat(toks, i + 1)
    IN
    IF current.Type = "CloseParenthesis"
        THEN AFail(parseError(current, "Unexpected token, expected type"), i + 1)
    ELSE With(parseType(current), LAMBDA returnType :
         IF ~returnType.ok THEN AFail(returnType.err, i)
         ELSE IF nxt.Type = "CloseParenthesis"
             THEN AOk(<<>>, Append(returnTypes, returnType.type), i + 2)
         ELSE IF nxt.Type = "Comma"
             THEN fnReturnTypesLoop(toks, i + 2, Append(returnTypes, returnType.type))
         ELSE AFail(parseError(nxt, "Unexpected token in function return type declaration"),
                    i + 1))

\* the return types of parseFunction (874-944), the cursor after the arguments
fnReturnTypes(toks, i) ==
    IF pat(toks, i).Type # "ArrowRight" THEN AOk(<<>>, <<ActualType(Void)>>, i)
    ELSE IF pat(toks, i + 1).Type = "OpenParenthesis"
        THEN fnReturnTypesLoop(toks, i + 2, <<>>)
    ELSE With(parseType(pat(toks, i + 1)), LAMBDA returnType :
         IF ~returnType.ok THEN AFail(returnType.err, i + 1)
         ELSE AOk(<<>>, <<returnType.type>>, i + 2))

\* the dereference of a nil Trace pointer
NilDereference == [message |-> "panic: nil pointer dereference", panic |-> TRUE]

\* processStatement: [skip, st, err]
processStatement(start, statement) ==
    IF statement.Type = SkipStatement
        THEN [skip |-> TRUE, st |-> statement, err |-> NoErr]
    ELSE IF ~hasTrace(start)
        THEN [skip |-> FALSE, st |-> statement, err |-> NilDereference]
    ELSE [skip |-> FALSE, st |-> [statement EXCEPT !.Trace = traceOf(start)],
          err |-> NoErr]

RECURSIVE parseStatement(_, _, _)
RECURSIVE parseScope(_, _, _)
RECURSIVE scopeLoop(_, _, _, _)
RECURSIVE parseFunction(_, _, _)

\* the for loop of parseScope
scopeLoop(toks, i, h, children) ==
    IF pat(toks, i).Type = "CloseCurlyBracket"
        THEN POk([Statement0 EXCEPT !.Type = ScopeDeclaration,
                                    !.Children = children], i + 1, h)
    ELSE OnOk(parseStatement(toks, i, h), LAMBDA s :
         With(processStatement(pat(toks, i), s.st), LAMBDA p :
         IF p.err # NoErr THEN PFail(p.err, s.index, s.heap)
         ELSE IF p.skip THEN scopeLoop(toks, s.index, s.heap, children)
         ELSE scopeLoop(toks, s.index, Append(s.heap, p.st),
                        Append(children, Len(s.heap) + 1))))

parseScope(toks, i, h) ==
    IF pat(toks, i).Type # "OpenCurlyBracket"
        THEN PFail(parseError(pat(toks, i), "Scope needs to be opened with {"), i, h)
        ELSE scopeLoop(toks, i + 1, h, <<>>)

\* parseFunction from the check for a scope on (946-976); n is the cursor
\* after the return types
functionBody(toks, n, h, isNative, functionName, args, rets) ==
    LET current == pat(toks, n) IN
    IF isNative /\ current.Type = "OpenCurlyBracket"
        THEN PFail(parseError(current, "Native function cannot define a scope"), n, h)
    ELSE IF ~isNative /\ current.Type # "OpenCurlyBracket"
        THEN PFail(parseError(current, "Expected new scope for function"), n, h)
    ELSE OnOk(IF isNative THEN POk(Statement0, n, h) ELSE parseScope(toks, n, h),
              LAMBDA scope :
         POk([Statement0 EXCEPT !.Type = FunctionDeclaration,
                                !.Value = functionName,
                                !.ArgTypes = args.types,
                                !.ArgNames = args.names,
                                !.Types = rets.types,
                                !.RunScope = Len(scope.heap) + 1,
                                !.Native = isNative],
             scope.index, Append(scope.heap, scope.st)))

parseFunction(toks, i, h) ==
    LET isNative == pat(toks, i + 1).Type = "Native"
        n == IF isNative THEN i + 2 ELSE i + 1
        name == pat(toks, n)
    IN
    IF name.Type # "Identifier"
        THEN PFail(parseError(name, "Function has invalid identifier"), n, h)
    ELSE IF pat(toks, n + 1).Type # "OpenParenthesis"
        THEN PFail(parseError(pat(toks, n + 1), "Function is missing ("), n + 1, h)
    ELSE With(fnArgsLoop(toks, n + 2, <<>>, <<>>), LAMBDA args :
         IF ~args.ok THEN PFail(args.err, args.index, h)
         ELSE With(fnReturnTypes(toks, args.index), LAMBDA rets :
              IF ~rets.ok THEN PFail(rets.err, rets.index, h)
              ELSE functionBody(toks, rets.index, h, isNative, name.Value, args, rets)))

parseStatement(toks, i, h) ==
    LET current == pat(toks, i) IN
    IF current.Type \in {"LF", "Semicolon"}
        THEN POk([Statement0 EXCEPT !.Type = SkipStatement], i + 1, h)
    ELSE IF current.Type = "OpenCurlyBracket" THEN parseScope(toks, i, h)
    ELSE IF current.Type = "Function" THEN parseFunction(toks, i, h)
    ELSE IF current.Type = "Import" THEN parseImport(toks, i, h)
    ELSE IF current.Type \in {"Var", "Const"} THEN parseVariableDeclaration(toks, i, h)
    ELSE IF current.Type \in {"Identifier", "OpenParenthesis"}
        THEN IF current.Type = "Identifier" /\ pat(toks, i + 1).Type = "OpenParenthesis"
                 THEN PFail(parseError(current, "FUNC CALL"), i, h)
                 ELSE parseVariableAssign(toks, i, h)
    ELSE PFail(parseError(current, "Unexpected token, statement expected"), i, h)

\* the for loop of ParseTokens
RECURSIVE parseTokensLoop(_, _, _, _)
parseTokensLoop(toks, i, h, children) ==
    IF pIsDone(toks, i)
        THEN POk([Statement0 EXCEPT !.Type = Root, !.Children = children], i, h)
    ELSE OnOk(parseStatement(toks, i, h), LAMBDA s :
         With(processStatement(pat(toks, i), s.st), LAMBDA p :
         IF p.err # NoErr THEN PFail(p.err, s.index, s.heap)
         ELSE IF p.skip THEN parseTokensLoop(toks, s.index, s.heap, children)
         ELSE parseTokensLoop(toks, s.index, Append(s.heap, p.st),
                              Append(children, Len(s.heap) + 1))))

ParseTokens(toks) == parseTokensLoop(toks, 0, <<>>, <<>>)

\* The parser is not running.
ParseIdle == ptokens = <<>> /\ parseState = "idle" /\ parseOut = NoErr

\* A token as Tokenize leaves it, the k-th of its line.
Tok(type, value, k) == [Type |-> type, Value |-> value, Index |-> k - 1, Row |-> 1, Column |-> k]

\* kinds[k] is a pair <<token type, value>>; the tokens in order, placed on one line
TokensOf(kinds) == [k \in 1..Len(kinds) |-> Tok(kinds[k][1], kinds[k][2], k)]

\* the dereferenced tree under a node: pointers followed through the heap, at
\* most fuel deep
RECURSIVE Tree(_, _, _)
Tree(h, st, fuel) ==
    IF fuel = 0 THEN [cut |-> TRUE]
    ELSE IF st.Type = BinaryExpression
        THEN [op |-> st.Operator,
              l |-> IF st.Left \in 1..Len(h) THEN Tree(h, h[st.Left], fuel - 1)
                    ELSE [nil |-> TRUE],
              r |-> IF st.Right \in 1..Len(h) THEN Tree(h, h[st.Right], fuel - 1)
                    ELSE [nil |-> TRUE]]
    ELSE [kind |-> st.Type, value |-> st.Value]

\* the heap addresses a node reaches, in order of the walk, at most fuel deep
RECURSIVE Reached(_, _, _)
Reached(h, st, fuel) ==
    IF fuel = 0 \/ st.Type # BinaryExpression THEN <<>>
    ELSE (IF st.Left \in 1..Len(h)
              THEN <<st.Left>> \o Reached(h, h[st.Left], fuel - 1) ELSE <<>>)
         \o (IF st.Right \in 1..Len(h)
              THEN <<st.Right>> \o Reached(h, h[st.Right], fuel - 1) ELSE <<>>)

\* ParseTokens is called on a token list.
ParseTokensStep ==
    /\ parseState = "program"
    /\ parseOut' = ParseTokens(ptokens)
    /\ parseState' = "programDone"
    /\ UNCHANGED <<ptokens, lexVars, ctxVars>>

\* parseExpression is called with the cursor on the first token.
ParseExpressionStep ==
    /\ parseState = "expression"
    /\ parseOut' = parseExpression(ptokens, 0, <<>>)
    /\ parseState' = "expressionDone"
    /\ UNCHANGED <<ptokens, lexVars, ctxVars>>


-----------------------------------------------------------------------------
(***************************************************************************)
(* CONTEXT BUILDER  (src/context/builder.go, on the node and scope model   *)
(* of src/unnamed/part_002)                                                *)
(*                                                                         *)
(* The builder walks a tree, so a node holds the nodes it points to: Left, *)
(* Right and RunScope are a node or Nil, Identifiers and Expressions are   *)
(* sequences of nodes, and Children is a Go slice of nodes: the backing    *)
(* array `arr`, as long as the capacity, and the length `len`.  RunCaller, *)
(* a back pointer, holds the Type and Value of the node it points to.      *)
(***************************************************************************)

Nil == [nil |-> TRUE]

\* parser.String, the type id inferType gives a string literal
String == "String"

\* Scope{} ; Parent is a Scope or Nil
Scope0 == [Parent |-> Nil, Vars |-> <<>>, Fns |-> <<>>]

\* the capacity append gives a slice grown one element at a time from
\* []*Statement{} (parser.go 62, 88 and 1027, 1055)
grownCap(n) ==
    IF n = 0 THEN 0 ELSE IF n = 1 THEN 1 ELSE IF n = 2 THEN 2
    ELSE IF n <= 4 THEN 4 ELSE IF n <= 8 THEN 8 ELSE 16

\* the slice the parser builds of a sequence of nodes
SliceOf(nodes) ==
    [arr |-> [k \in 1..grownCap(Len(nodes)) |->
                 IF k <= Len(nodes) THEN nodes[k] ELSE Nil],
     len |-> Len(nodes)]

\* the elements of a slice
Elems(slice) == SubSeq(slice.arr, 1, slice.len)

\* Statement{} as a node of the tree
Node0 ==
    [Type |-> Root, Value |-> "", Left |-> Nil, Right |-> Nil,
     Operator |-> AdditionOperation, Children |-> SliceOf(<<>>),
     Identifiers |-> <<>>, Expressions |-> <<>>, Types |-> <<>>,
     ArgNames |-> <<>>, ArgTypes |-> <<>>, RunScope |-> Nil, RunCaller |-> Nil,
     Constant |-> FALSE, Native |-> FALSE, Trace |-> ZeroTrace,
     Context |-> Scope0, ContextVariable |-> Nil, ContextFunction |-> Nil]

\* fail: StaticError{message, trace}
fail(statement, message) == [message |-> message, trace |-> statement.Trace]

\* a run-time panic of the builder
BuilderPanic(what) == [message |-> "panic: " \o what, panic |-> TRUE]

\* What an analyze function leaves: the error, the analyzer's scope and the
\* node it was given, as it mutated it.
COk(scope, st) == [ok |-> TRUE, err |-> NoErr, scope |-> scope, st |-> st]

CFail(err, scope, st) == [ok |-> FALSE, err |-> err, scope |-> scope, st |-> st]

\* what inferType returns
TOk(type) == [ok |-> TRUE, err |-> NoErr, type |-> type]

TFail(err) == [ok |-> FALSE, err |-> err, type |-> ActualType(Void)]

\* Scope.GetVariable: the variable or Nil
RECURSIVE GetVariable(_, _)
GetVariable(s, name) ==
    LET hits == {k \in 1..Len(s.Vars) : s.Vars[k].VarName = name} IN
    IF hits # {} THEN s.Vars[CHOOSE k \in hits : \A j \in hits : k <= j]
    ELSE IF s.Parent # Nil THEN GetVariable(s.Parent, name)
    ELSE Nil

\* Scope.GetFunction: the function or Nil
RECURSIVE GetFunction(_, _)
GetFunction(s, name) ==
    LET hits == {k \in 1..Len(s.Fns) : s.Fns[k].FnName = name} IN
    IF hits # {} THEN s.Fns[CHOOSE k \in hits : \A j \in hits : k <= j]
    ELSE IF s.Parent # Nil THEN GetFunction(s.Parent, name)
    ELSE Nil

\* the characters of the number lexemes the programs below hold
Runes(value) ==
    CASE value = "1" -> <<"1">>
      [] value = "2" -> <<"2">>
      [] value = "3" -> <<"3">>
      [] value = "2.5" -> <<"2", ".", "5">>
      [] OTHER -> <<>>

\* strings.Contains(value, ".")
ContainsDot(value) == \E k \in 1..Len(Runes(value)) : Runes(value)[k] = "."

RECURSIVE inferType(_, _, _)
RECURSIVE inferBinaryType(_, _)

inferBinaryType(scope, statement) ==
    IF statement.Left = Nil
        THEN TFail(fail(statement, "Left side could not be dereferenced"))
    ELSE With(inferType(scope, statement.Left, statement), LAMBDA leftType :
         IF ~leftType.ok THEN leftType
         ELSE IF statement.Right = Nil
             THEN TFail(fail(statement, "Left side could not be dereferenced"))
         ELSE With(inferType(scope, statement.Right, statement), LAMBDA rightType :
              IF ~rightType.ok THEN rightType
              ELSE IF leftType.type.Id # rightType.type.Id
                  THEN TFail(fail(statement, "Cannot combine types TODO ADD SUPPORT LATER"))
              ELSE leftType))

inferType(scope, expression, statement) ==
    IF expression.Type = NumberLiteral
        THEN IF Runes(expression.Value) = <<>>
                 THEN TFail(BuilderPanic("index out of range [0] with length 0"))
             ELSE IF ContainsDot(expression.Value) THEN TOk(ActualType(Float32))
             ELSE TOk(ActualType(Int32))
    ELSE IF expression.Type = BooleanLiteral THEN TOk(ActualType(Bool))
    ELSE IF expression.Type = StringLiteral THEN TOk(ActualType(String))
    ELSE IF expression.Type = IdentifierExpression
        THEN With(GetVariable(scope, expression.Value), LAMBDA scopeVariable :
             IF scopeVariable = Nil
                 THEN TFail(fail(statement, "Undefined identifier " \o expression.Value))
                 ELSE TOk(scopeVariable.VarType))
    ELSE IF expression.Type = BinaryExpression THEN inferBinaryType(scope, expression)
    ELSE IF expression.Type = FunctionExpression
        THEN With(GetFunction(scope, expression.Value), LAMBDA function :
             IF function = Nil
                 THEN TFail(fail(statement, "Undefined function " \o expression.Value))
             ELSE IF Len(function.FnTypes) = 0
                 THEN TFail(fail(statement, "Function " \o expression.Value
                                            \o " does not return any value"))
             ELSE IF Len(function.FnTypes) > 1
                 THEN TFail(fail(statement, "Function " \o expression.Value
                                 \o " returns multiple values, can only accept one"))
             ELSE TOk(function.FnTypes[1]))
    ELSE TFail(fail(statement, "Undefined type"))

\* isUsingVariable
RECURSIVE isUsingVariable(_, _)
isUsingVariable(statement, variable) ==
    IF statement.Type \in {VariableDeclaration, VariableAssignment}
        THEN \/ \E k \in 1..Len(statement.Identifiers) :
                    isUsingVariable(statement.Identifiers[k], variable)
             \/ \E k \in 1..Len(statement.Expressions) :
                    isUsingVariable(statement.Expressions[k], variable)
    ELSE IF statement.Type = BinaryExpression
        THEN \/ isUsingVariable(statement.Left, variable)
             \/ isUsingVariable(statement.Right, variable)
    ELSE IF statement.Type = IdentifierExpression
        THEN variable.VarName = statement.Value
    ELSE FALSE

\* append(slice, node): in place while the capacity lasts, else into a new
\* array of twice the capacity; `moved` tells which
appendNode(slice, node) ==
    IF slice.len < Len(slice.arr)
        THEN [arr |-> [slice.arr EXCEPT ![slice.len + 1] = node],
              len |-> slice.len + 1, moved |-> FALSE]
        ELSE [arr |-> [k \in 1..(IF Len(slice.arr) = 0 THEN 1 ELSE 2 * Len(slice.arr)) |->
                          IF k <= slice.len THEN slice.arr[k]
                          ELSE IF k = slice.len + 1 THEN node ELSE Nil],
              len |-> slice.len + 1, moved |-> TRUE]

\* append(slice[:index+1], slice[index:]...) and slice[index] = node, for
\* index < len(slice); `position` is the code's index, counting from 0
insertNode(slice, position, node) ==
    LET shifted(k) == IF k <= position THEN slice.arr[k]
                      ELSE IF k = position + 1 THEN node
                      ELSE IF k <= slice.len + 1 THEN slice.arr[k - 1]
                      ELSE Nil
    IN  IF slice.len + 1 <= Len(slice.arr)
            THEN [arr |-> [k \in 1..Len(slice.arr) |->
                              IF k <= slice.len + 1 THEN shifted(k) ELSE slice.arr[k]],
                  len |-> slice.len + 1, moved |-> FALSE]
            ELSE [arr |-> [k \in 1..(2 * Len(slice.arr)) |-> shifted(k)],
                  len |-> slice.len + 1, moved |-> TRUE]

\* the statement generateAndCleanUp builds for a variable
deAllocation(scope, cv) ==
    [Node0 EXCEPT !.Type = MemoryDeAllocation, !.Context = scope,
                  !.ContextVariable = cv]

\* a variable counts as unused only when no statement uses it
unusedVariableAtZero(usageCount, variable) ==
    usageCount <= 0 /\ ~variable.VarOfFunction

\* usageCount <= 1 && !variable.VarOfFunction (builder.go 452)
unusedVariable(usageCount, variable) ==
    usageCount <= 1 /\ ~variable.VarOfFunction

\* generateAndCleanUp, one variable of the scope after the other.  `children`
\* is the slice header taken at line 427: it keeps its length, and reads the
\* parent's array for as long as no append has moved the parent to a new one
\* (`shared`), the array it was taken from afterwards.
RECURSIVE cleanUpLoop(_, _, _, _, _)
cleanUpLoop(scope, parent, children, v, offset) ==
    IF v > Len(scope.Vars) THEN COk(scope, parent)
    ELSE
    With(scope.Vars[v], LAMBDA variable :
    With(IF children.shared THEN parent.Children.arr ELSE children.arr, LAMBDA seen :
    With({i \in 1..children.len : isUsingVariable(seen[i], variable)}, LAMBDA usages :
    With(IF usages = {} THEN -1
         ELSE (CHOOSE i \in usages : \A j \in usages : j <= i) - 1, LAMBDA lastUsageIndex :
    With(IF usages = {} THEN Node0
         ELSE seen[CHOOSE i \in usages : \A j \in usages : i <= j], LAMBDA firstUsage :
    IF unusedVariable(Cardinality(usages), variable)
        THEN CFail(fail(firstUsage, "Unused variable " \o variable.VarName), scope, parent)
    ELSE
    With(lastUsageIndex + offset, LAMBDA position :
    With(deAllocation(scope, variable), LAMBDA stmt :
    IF position = parent.Children.len
        THEN With(appendNode(parent.Children, stmt), LAMBDA grown :
             cleanUpLoop(scope,
                         [parent EXCEPT !.Children = [arr |-> grown.arr, len |-> grown.len]],
                         IF children.shared /\ grown.moved
                             THEN [arr |-> parent.Children.arr, len |-> children.len,
                                   shared |-> FALSE]
                             ELSE children,
                         v + 1, offset + 1))
    ELSE IF position + 1 > Len(parent.Children.arr) \/ position > parent.Children.len
        THEN CFail(BuilderPanic("slice bounds out of range"), scope, parent)
    ELSE With(insertNode(parent.Children, position, stmt), LAMBDA grown :
         cleanUpLoop(scope,
                     [parent EXCEPT !.Children = [arr |-> grown.arr, len |-> grown.len]],
                     IF children.shared /\ grown.moved
                         THEN [arr |-> parent.Children.arr, len |-> children.len,
                               shared |-> FALSE]
                         ELSE children,
                     v + 1, offset + 1)))))))))

generateAndCleanUp(scope, parent) ==
    cleanUpLoop(scope, parent,
                [arr |-> parent.Children.arr, len |-> parent.Children.len, shared |-> TRUE],
                1, 1)

\* the ScopeVar appended for a declared variable (builder.go 278-284)
newVar(name, varType, constant, expr) ==
    [VarName |-> name, VarType |-> varType, VarConstant |-> constant,
     VarValueExpression |-> expr, ALLOCATED |-> FALSE, VarOfFunction |-> FALSE]

\* the declared type is rejected without a look at Void
declaredTypeMismatchStrict(varType, inferredType) == varType.Id # inferredType.Id

\* varType.Id > 0 && varType.Id != inferredType.Id (builder.go 268)
declaredTypeMismatch(varType, inferredType) ==
    varType.Id # Void /\ varType.Id # inferredType.Id

\* analyzeVariableDeclaration, from expression i on (i counts from 1)
RECURSIVE declarationLoop(_, _, _)
declarationLoop(scope, statement, i) ==
    IF i > Len(statement.Expressions) THEN COk(scope, statement)
    ELSE IF i > Len(statement.Identifiers) \/ i > Len(statement.Types)
        THEN CFail(BuilderPanic("index out of range"), scope, statement)
    ELSE
    With(statement.Identifiers[i].Value, LAMBDA name :
    IF GetVariable(scope, name) # Nil
        THEN CFail(fail(statement, "Variable " \o name \o " is already declared"),
                   scope, statement)
    ELSE
    With(statement.Expressions[i], LAMBDA expr :
    With(statement.Types[i], LAMBDA varType :
    With(inferType(scope, expr, statement), LAMBDA inferredType :
    IF ~inferredType.ok THEN CFail(inferredType.err, scope, statement)
    ELSE IF declaredTypeMismatch(varType, inferredType.type)
        THEN CFail(fail(statement, "Variable type of " \o name \o " does not match value"),
                   scope, statement)
    ELSE
    With(IF varType.Id = Void THEN inferredType.type ELSE varType, LAMBDA finalType :
    With(newVar(name, finalType, statement.Constant, expr), LAMBDA declared :
    With([scope EXCEPT !.Vars = Append(@, declared)], LAMBDA grownScope :
    declarationLoop(grownScope,
                    [statement EXCEPT !.Types[i] = finalType,
                                      !.Context = grownScope,
                                      !.ContextVariable = declared],
                    i + 1))))))))

analyzeVariableDeclaration(scope, statement) == declarationLoop(scope, statement, 1)

\* analyzeVariableAssignment, from expression i on
RECURSIVE assignmentLoop(_, _, _)
assignmentLoop(scope, statement, i) ==
    IF i > Len(statement.Expressions) THEN COk(scope, statement)
    ELSE IF i > Len(statement.Identifiers)
        THEN CFail(BuilderPanic("index out of range"), scope, statement)
    ELSE
    With(statement.Identifiers[i].Value, LAMBDA name :
    With(GetVariable(scope, name), LAMBDA variable :
    IF variable = Nil
        THEN CFail(fail(statement, "Variable " \o name \o " is not defined"),
                   scope, statement)
    ELSE IF variable.VarConstant
        THEN CFail(fail(statement, "Variable " \o name \o " is immutable"), scope, statement)
    ELSE
    With(inferType(scope, statement.Expressions[i], statement), LAMBDA inferredType :
    IF ~inferredType.ok THEN CFail(inferredType.err, scope, statement)
    ELSE IF inferredType.type.Id # variable.VarType.Id
        THEN CFail(fail(statement, "Value of variable " \o name
                                   \o " has an mismatched type"), scope, statement)
    ELSE assignmentLoop(scope,
                        [statement EXCEPT !.Context = scope, !.ContextVariable = variable],
                        i + 1))))

analyzeVariableAssignment(scope, statement) == assignmentLoop(scope, statement, 1)

analyzeIdentifierExpression(scope, statement) ==
    IF GetVariable(scope, statement.Value) = Nil
        THEN CFail(fail(statement, "Undefined identifier " \o statement.Value),
                   scope, statement)
        ELSE COk(scope, statement)

\* the argument loop of analyzeFunctionExpression (builder.go 364-383)
RECURSIVE argumentLoop(_, _, _, _)
argumentLoop(scope, statement, functionArgTypes, i) ==
    IF i > Len(statement.Expressions) THEN COk(scope, statement)
    ELSE IF Len(functionArgTypes) = 0
        THEN CFail(BuilderPanic("index out of range [-1]"), scope, statement)
    ELSE
    With(IF i > Len(functionArgTypes) THEN functionArgTypes[Len(functionArgTypes)]
         ELSE functionArgTypes[i], LAMBDA expectedType :
    With(inferType(scope, statement.Expressions[i], statement), LAMBDA inferredType :
    IF ~inferredType.ok THEN CFail(inferredType.err, scope, statement)
    ELSE IF expectedType.Id # inferredType.type.Id
        THEN CFail(fail(statement, "Invalid type in argument #" \o ToString(i - 1)
                                   \o " in function call " \o statement.Value),
                   scope, statement)
    ELSE argumentLoop(scope, statement, functionArgTypes, i + 1)))

\* the count test of builder.go 360
invalidArgumentCount(argInputCount, functionArgTypes) ==
    /\ argInputCount # Len(functionArgTypes)
    /\ \/ Len(functionArgTypes) = 0
       \/ ~functionArgTypes[Len(functionArgTypes)].Variadic

analyzeFunctionExpression(scope, statement) ==
    With(GetFunction(scope, statement.Value), LAMBDA function :
    IF function = Nil
        THEN CFail(fail(statement, "Undefined function " \o statement.Value),
                   scope, statement)
    ELSE IF invalidArgumentCount(Len(statement.Expressions), function.FnArgTypes)
        THEN CFail(fail(statement, "Invalid argument count"), scope, statement)
    ELSE argumentLoop(scope, statement, function.FnArgTypes, 1))

\* a parameter's type: ActualType with the Variadic flag builder.go 360 reads
ArgType(id, variadic) == [Id |-> id, CustomName |-> "", Variadic |-> variadic]

\* the parameters analyzeScopeDeclaration puts in the new scope (178-189)
parameterVars(function) ==
    [k \in 1..Len(function.FnArgNames) |->
        [VarType |-> function.FnArgTypes[k], VarName |-> function.FnArgNames[k],
         VarConstant |-> TRUE, VarValueExpression |-> Nil, ALLOCATED |-> FALSE,
         VarOfFunction |-> TRUE]]

\* what statement.RunCaller shows of the statement it points to
callerOf(statement) == [Type |-> statement.Type, Value |-> statement.Value]

\* no scope counts as outside the root scope
outsideRootScopeNever(scope) == FALSE

\* analyzer.currentScope.Parent != nil (builder.go 211)
outsideRootScope(scope) == scope.Parent # Nil

RECURSIVE analyzeStatement(_, _)
RECURSIVE analyzeTree(_, _, _)
RECURSIVE analyzeInstance(_, _)
RECURSIVE analyzeScopeDeclaration(_, _)
RECURSIVE analyzeFunctionDeclaration(_, _)

\* analyzeRoot: a fresh analyzer on a copy of the scope; the caller's scope
\* is left as it was
analyzeRoot(scope, statement) ==
    With(analyzeInstance(statement, scope), LAMBDA a :
    IF ~a.ok THEN CFail(a.err, scope, a.st) ELSE COk(scope, a.st))

analyzeScopeDeclaration(scope, statement) ==
    With([Parent |-> scope, Vars |-> <<>>, Fns |-> <<>>], LAMBDA newScope :
    IF statement.RunCaller = Nil
        THEN CFail(BuilderPanic("invalid memory address or nil pointer dereference"),
                   scope, statement)
    ELSE
    With(IF statement.RunCaller.Type = FunctionDeclaration
             THEN GetFunction(scope, statement.RunCaller.Value) ELSE Nil, LAMBDA function :
    IF statement.RunCaller.Type = FunctionDeclaration /\ function = Nil
        THEN CFail(fail(statement, "Could not get function " \o statement.RunCaller.Value
                                   \o " within scope"), scope, statement)
    ELSE
    With(IF function = Nil THEN newScope
         ELSE [newScope EXCEPT !.Vars = parameterVars(function)], LAMBDA bodyScope :
    With(analyzeInstance(statement, bodyScope), LAMBDA a :
    IF ~a.ok THEN CFail(a.err, bodyScope, a.st)
    ELSE COk(scope, [a.st EXCEPT !.Context = bodyScope])))))

analyzeFunctionDeclaration(scope, statement) ==
    IF outsideRootScope(scope)
        THEN CFail(fail(statement, "Cannot declare function outside of root scope"),
                   scope, statement)
    ELSE IF GetFunction(scope, statement.Value) # Nil
        THEN CFail(fail(statement, "Function " \o statement.Value \o " is already declared"),
                   scope, statement)
    ELSE
    With([FnTypes |-> statement.Types, FnArgNames |-> statement.ArgNames,
          FnArgTypes |-> statement.ArgTypes, FnName |-> statement.Value], LAMBDA newFn :
    With([scope EXCEPT !.Fns = Append(@, newFn)], LAMBDA grownScope :
    With([statement EXCEPT !.Context = grownScope, !.ContextFunction = newFn], LAMBDA marked :
    IF statement.RunScope = Nil
        THEN CFail(BuilderPanic("invalid memory address or nil pointer dereference"),
                   grownScope, marked)
    ELSE
    With(analyzeStatement(grownScope,
                          [statement.RunScope EXCEPT !.RunCaller = callerOf(statement)]),
         LAMBDA body :
    IF ~body.ok THEN CFail(body.err, body.scope, [marked EXCEPT !.RunScope = body.st])
    ELSE COk(body.scope, [marked EXCEPT !.RunScope = body.st])))))

analyzeStatement(scope, statement) ==
    IF statement.Type = Root THEN analyzeRoot(scope, statement)
    ELSE IF statement.Type = ScopeDeclaration THEN analyzeScopeDeclaration(scope, statement)
    ELSE IF statement.Type = FunctionDeclaration
        THEN analyzeFunctionDeclaration(scope, statement)
    ELSE IF statement.Type = VariableDeclaration
        THEN analyzeVariableDeclaration(scope, statement)
    ELSE IF statement.Type = VariableAssignment
        THEN analyzeVariableAssignment(scope, statement)
    ELSE IF statement.Type = IdentifierExpression
        THEN analyzeIdentifierExpression(scope, statement)
    ELSE IF statement.Type = FunctionExpression
        THEN analyzeFunctionExpression(scope, statement)
    ELSE COk(scope, statement)

\* analyzeTree from child k on (k counts from 1); `length` is the length
\* analyzeInstance took of the children
analyzeTree(scope, parent, k) ==
    IF k > parent.Children.len THEN generateAndCleanUp(scope, parent)
    ELSE With(analyzeStatement(scope, parent.Children.arr[k]), LAMBDA r :
         With([parent EXCEPT !.Children.arr[k] = r.st], LAMBDA walked :
         IF ~r.ok THEN CFail(r.err, r.scope, walked)
         ELSE analyzeTree(r.scope, walked, k + 1)))

analyzeInstance(root, scope) == analyzeTree(scope, root, 1)

\* Grow
Grow(statement) == analyzeInstance(statement, Scope0)

-----------------------------------------------------------------------------
(***************************************************************************)
(* EMITTER  (src/unnamed/part_009: CompileC)                               *)
(*                                                                         *)
(* The compiler value `cl` is threaded through: head, prepend, indent,     *)
(* booleanImported and imports.  The emitter names the number and boolean  *)
(* kinds NumberExpression and BooleanExpression; they are the kinds the    *)
(* parser gives a number and a boolean literal.                            *)
(***************************************************************************)

\* &compiler{indent: -1}
Compiler0 ==
    [head |-> "", prepend |-> "", indent |-> -1, booleanImported |-> FALSE,
     imports |-> <<>>]

EOk(content, cl) == [ok |-> TRUE, err |-> NoErr, content |-> content, cl |-> cl]

EFail(err, cl) == [ok |-> FALSE, err |-> err, content |-> "", cl |-> cl]

EmitterPanic == [message |-> "panic: invalid memory address or nil pointer dereference",
                 panic |-> TRUE]

cImportLib(cl, path) ==
    IF \E k \in 1..Len(cl.imports) : cl.imports[k] = path THEN cl
    ELSE [cl EXCEPT !.imports = Append(@, path)]

RECURSIVE spaces(_)
spaces(n) == IF n <= 0 THEN "" ELSE "    " \o spaces(n - 1)

indent(cl) == spaces(cl.indent)

inferName(name) == "Comet_INTERNAL_" \o name

inferReturnStructName(name) == "Return_" \o inferName(name)

inferBoolean == "struct " \o inferName("boolean")

importBoolean(cl) ==
    IF cl.booleanImported THEN cl
    ELSE [cl EXCEPT !.head = @ \o inferBoolean \o " {\n    unsigned int value : 1;\n};\n",
                    !.booleanImported = TRUE]

importBooleanIfNeeded(cl, statement) ==
    IF cl.booleanImported THEN cl
    ELSE IF \/ \E k \in 1..Len(statement.ArgTypes) : statement.ArgTypes[k].Id = Bool
            \/ \E k \in 1..Len(statement.Types) : statement.Types[k].Id = Bool
        THEN importBoolean(cl)
    ELSE cl

\* internalTypes; a type id the map does not hold gives ""
internalTypes(id) ==
    CASE id = Void -> "void"
      [] id = Bool -> inferBoolean
      [] id = Int8 -> "int8_t"
      [] id = Int16 -> "int16_t"
      [] id = Int32 -> "int32_t"
      [] id = Int64 -> "int64_t"
      [] id = UnsignedInt8 -> "uint8_t"
      [] id = UnsignedInt16 -> "uint16_t"
      [] id = UnsignedInt32 -> "uint32_t"
      [] id = UnsignedInt64 -> "uint64_t"
      [] id = Float32 -> "float"
      [] id = Float64 -> "double"
      [] id = Complex64 -> "float _Complex"
      [] id = Complex128 -> "double _Complex"
      [] OTHER -> ""

getTypeOfC(aType) ==
    IF aType.Id # Custom THEN internalTypes(aType.Id) ELSE aType.CustomName

\* fmt's %v of a statement, as far as the kind and the value
render(statement) == "{" \o statement.Type \o " " \o statement.Value \o "}"

compileMemoryDeAllocation(cl, statement) ==
    IF statement.ContextVariable = Nil THEN EFail(EmitterPanic, cl)
    ELSE IF statement.ContextVariable.ALLOCATED THEN EOk("", cl)
    ELSE EOk(indent(cl) \o "free(" \o statement.ContextVariable.VarName \o ");",
             cImportLib(cl, "stdlib.h"))

\* the operator's character (part_009 270-281)
operatorText(operator) ==
    CASE operator = AdditionOperation -> "+"
      [] operator = SubtractionOperation -> "-"
      [] operator = MultiplicationOperation -> "*"
      [] operator = DivisionOperation -> "/"
      [] operator = ModulusOperation -> "%"
      [] OTHER -> ""

\* continue with the result of an emitter call, or pass its error on
OnEmitted(r, K(_)) == IF ~r.ok THEN r ELSE K(r)

RECURSIVE compile(_, _, _)
RECURSIVE compileExpression(_, _, _)
RECURSIVE compileBinaryExpression(_, _, _, _)
RECURSIVE compileScope(_, _)

\* one side of a binary expression (part_009 252-268, 283-299); an error of
\* the side ends the expression with "" and no error
compileSide(cl, side, i, context) ==
    IF side.Type = BinaryExpression THEN compileBinaryExpression(cl, side, i + 1, context)
    ELSE compile(cl, side, context)

compileBinaryExpression(cl, statement, i, context) ==
    IF statement.Left = Nil \/ statement.Right = Nil THEN EFail(EmitterPanic, cl)
    ELSE
    With(statement.Operator \notin {AdditionOperation, SubtractionOperation},
         LAMBDA prioritized :
    With(compileSide(cl, statement.Left, i, context), LAMBDA left :
    IF ~left.ok THEN (IF "panic" \in DOMAIN left.err THEN left ELSE EOk("", left.cl))
    ELSE
    With(compileSide(left.cl, statement.Right, i, context), LAMBDA right :
    IF ~right.ok THEN (IF "panic" \in DOMAIN right.err THEN right ELSE EOk("", right.cl))
    ELSE EOk((IF i > 0 /\ ~prioritized THEN "(" ELSE "")
             \o left.content \o operatorText(statement.Operator) \o right.content
             \o (IF i > 0 /\ ~prioritized THEN ")" ELSE ""),
             right.cl))))

compileExpression(cl, statement, context) ==
    IF statement.Type = NumberExpression THEN EOk(statement.Value, cl)
    ELSE IF statement.Type = IdentifierExpression
        THEN IF context = Nil THEN EFail(EmitterPanic, cl)
             ELSE With(GetVariable(context, statement.Value), LAMBDA variable :
                  IF variable # Nil /\ variable.VarType.Id = Bool
                      THEN EOk(statement.Value \o ".value", cl)
                      ELSE EOk(statement.Value, cl))
    ELSE IF statement.Type = BinaryExpression
        THEN compileBinaryExpression(cl, statement, 0, context)
    ELSE IF statement.Type = BooleanExpression
        THEN EOk(IF statement.Value = "true" THEN "1" ELSE "0", cl)
    ELSE EOk(indent(cl) \o "// UNKNOWN EXPRESSION " \o render(statement), cl)

\* compileVariableAssignment from pair i on, `content` being what is built
RECURSIVE assignmentText(_, _, _, _)
assignmentText(cl, statement, i, content) ==
    IF i > Len(statement.Expressions) THEN EOk(content, cl)
    ELSE IF i > Len(statement.Identifiers) THEN EFail(EmitterPanic, cl)
    ELSE
    OnEmitted(compileExpression(cl, statement.Identifiers[i], statement.Context),
              LAMBDA compiledIdentifier :
    OnEmitted(compile(compiledIdentifier.cl, statement.Expressions[i], statement.Context),
              LAMBDA compiledExpr :
    assignmentText(compiledExpr.cl, statement, i + 1,
                   content \o indent(compiledExpr.cl) \o compiledIdentifier.content
                   \o " = " \o compiledExpr.content \o ";"
                   \o (IF i # Len(statement.Expressions) THEN "\n" ELSE ""))))

compileVariableAssignment(cl, statement) ==
    assignmentText(cImportLib(cl, "sys/types.h"), statement, 1, "")

\* compileVariableDeclaration from triple i on
RECURSIVE declarationText(_, _, _, _)
declarationText(cl, statement, i, content) ==
    IF i > Len(statement.Expressions) THEN EOk(content, cl)
    ELSE IF i > Len(statement.Identifiers) \/ i > Len(statement.Types)
        THEN EFail(EmitterPanic, cl)
    ELSE
    OnEmitted(compileExpression(cl, statement.Identifiers[i], statement.Context),
              LAMBDA compiledIdentifier :
    OnEmitted(compile(compiledIdentifier.cl, statement.Expressions[i], statement.Context),
              LAMBDA compiledExpr :
    With(statement.Types[i], LAMBDA varType :
    With(IF varType.Id = Bool THEN statement.Identifiers[i].Value
         ELSE compiledIdentifier.content, LAMBDA name :
    With(IF varType.Id = Bool THEN importBoolean(compiledExpr.cl) ELSE compiledExpr.cl,
         LAMBDA after :
    declarationText(after, statement, i + 1,
                    content \o indent(compiledExpr.cl)
                    \o (IF statement.Constant THEN "const " ELSE "")
                    \o getTypeOfC(varType) \o " " \o name
                    \o (IF varType.Id = Bool
                            THEN " = { value: " \o compiledExpr.content \o " }"
                            ELSE " = " \o compiledExpr.content)
                    \o ";"
                    \o (IF i # Len(statement.Expressions) THEN "\n" ELSE "")))))))

compileVariableDeclaration(cl, statement) ==
    declarationText(cImportLib(cl, "sys/types.h"), statement, 1, "")

\* the fields of the return struct (part_009 328-333)
RECURSIVE returnFields(_, _, _)
returnFields(cl, types, i) ==
    IF i > Len(types) THEN ""
    ELSE indent(cl) \o getTypeOfC(types[i]) \o " type" \o ToString(i - 1) \o ";\n"
         \o returnFields(cl, types, i + 1)

\* the parameter list (part_009 349-359)
RECURSIVE parameterText(_, _)
parameterText(statement, i) ==
    IF i > Len(statement.ArgTypes) THEN ""
    ELSE getTypeOfC(statement.ArgTypes[i]) \o " " \o statement.ArgNames[i]
         \o (IF i # Len(statement.ArgTypes) THEN ", " ELSE "")
         \o parameterText(statement, i + 1)

compileFunction(cl, statement) ==
    With(importBooleanIfNeeded(cl, statement), LAMBDA imported :
    With(IF Len(statement.Types) > 1
             THEN [imported EXCEPT !.prepend = @
                      \o "struct " \o inferReturnStructName(statement.Value) \o " {\n"
                      \o returnFields([imported EXCEPT !.indent = @ + 1], statement.Types, 1)
                      \o "};\n"]
             ELSE imported, LAMBDA cl2 :
    With(IF Len(statement.Types) > 1
             THEN "struct " \o inferReturnStructName(statement.Value)
         ELSE IF Len(statement.Types) = 1 THEN getTypeOfC(statement.Types[1])
         ELSE "void", LAMBDA returnTypeC :
    With(indent(cl2) \o returnTypeC \o " " \o statement.Value \o "("
         \o parameterText(statement, 1) \o ") ", LAMBDA content :
    IF statement.RunScope = Nil
        THEN EOk(content \o " {\n" \o spaces(cl2.indent + 1) \o "// NO RUN SCOPE\n}\n", cl2)
    ELSE OnEmitted(compileScope(cl2, statement.RunScope), LAMBDA compiled :
         EOk(content \o compiled.content, compiled.cl))))))

\* the children of a scope, from child k on, at the raised indent
RECURSIVE childrenText(_, _, _, _)
childrenText(cl, statement, k, content) ==
    IF k > statement.Children.len THEN EOk(content, cl)
    ELSE IF statement.Children.arr[k] = Nil THEN EFail(EmitterPanic, cl)
    ELSE OnEmitted(compile(cl, statement.Children.arr[k], statement.Context), LAMBDA code :
         childrenText(code.cl, statement, k + 1,
                      IF code.content # "" THEN content \o code.content \o "\n"
                      ELSE content))

compileScope(cl, statement) ==
    With(IF statement.Type = ScopeDeclaration THEN indent(cl) \o "{\n" ELSE "", LAMBDA open :
    OnEmitted(childrenText([cl EXCEPT !.indent = @ + 1], statement, 1, open),
              LAMBDA body :
    With([body.cl EXCEPT !.indent = @ - 1], LAMBDA back :
    EOk(IF statement.Type = ScopeDeclaration
            THEN body.content \o indent(back) \o "}\n" ELSE body.content,
        back))))

compile(cl, statement, context) ==
    IF statement.Type = SkipStatement THEN EOk("", cl)
    ELSE IF statement.Type \in {Root, ScopeDeclaration} THEN compileScope(cl, statement)
    ELSE IF statement.Type = FunctionDeclaration THEN compileFunction(cl, statement)
    ELSE IF statement.Type = VariableDeclaration
        THEN compileVariableDeclaration(cl, statement)
    ELSE IF statement.Type = VariableAssignment
        THEN compileVariableAssignment(cl, statement)
    ELSE IF statement.Type \in {BinaryExpression, IdentifierExpression,
                                NumberExpression, BooleanExpression}
        THEN compileExpression(cl, statement, context)
    ELSE IF statement.Type = MemoryDeAllocation
        THEN compileMemoryDeAllocation(cl, statement)
    ELSE EOk(indent(cl) \o "// UNKNOWN STATEMENT " \o render(statement), cl)

\* the #include lines (part_009 54-58)
RECURSIVE includes(_, _)
includes(imports, k) ==
    IF k > Len(imports) THEN ""
    ELSE "#include \"" \o imports[k] \o "\"\n" \o includes(imports, k + 1)

\* CompileC: the text, or the error
CompileC(root) ==
    With(compile(Compiler0, root, Nil), LAMBDA compiled :
    IF ~compiled.ok THEN [ok |-> FALSE, err |-> compiled.err, text |-> ""]
    ELSE [ok |-> TRUE, err |-> NoErr,
          text |-> includes(compiled.cl.imports, 1) \o compiled.cl.head
                   \o compiled.cl.prepend \o compiled.content])

-----------------------------------------------------------------------------
(***************************************************************************)
(* The trees handed to Grow, built as the parser builds them, and the two  *)
(* steps of main after parsing: Grow, and CompileC if Grow gave no error.  *)
(***************************************************************************)

numberOf(value) == [Node0 EXCEPT !.Type = NumberExpression, !.Value = value]

booleanOf(value) == [Node0 EXCEPT !.Type = BooleanExpression, !.Value = value]

identifierOf(name) == [Node0 EXCEPT !.Type = IdentifierExpression, !.Value = name]

binaryOf(operator, left, right) ==
    [Node0 EXCEPT !.Type = BinaryExpression, !.Operator = operator,
                  !.Left = left, !.Right = right]

\* a call: the name and the argument expressions analyzeFunctionExpression reads
callOf(name, arguments) ==
    [Node0 EXCEPT !.Type = FunctionExpression, !.Value = name, !.Expressions = arguments]

declarationOf(constant, names, types, expressions) ==
    [Node0 EXCEPT !.Type = VariableDeclaration,
                  !.Identifiers = [k \in 1..Len(names) |-> identifierOf(names[k])],
                  !.Expressions = expressions,
                  !.Types = [k \in 1..Len(types) |-> ActualType(types[k])],
                  !.Constant = constant]

assignmentOf(names, expressions) ==
    [Node0 EXCEPT !.Type = VariableAssignment,
                  !.Identifiers = [k \in 1..Len(names) |-> identifierOf(names[k])],
                  !.Expressions = expressions]

scopeOf(children) ==
    [Node0 EXCEPT !.Type = ScopeDeclaration, !.Children = SliceOf(children)]

\* a function; `body` is the scope, or Statement{} for a native function
functionOf(name, argNames, argTypes, types, body, native) ==
    [Node0 EXCEPT !.Type = FunctionDeclaration, !.Value = name,
                  !.ArgNames = argNames, !.ArgTypes = argTypes,
                  !.Types = [k \in 1..Len(types) |-> ActualType(types[k])],
                  !.RunScope = body, !.Native = native]

rootOf(children) == [Node0 EXCEPT !.Type = Root, !.Children = SliceOf(children)]

\* hints, err := context.Grow(&statement)
GrowStep ==
    /\ ctxState = "tree"
    /\ ctxOut' = Grow(ast)
    /\ ctxState' = "grown"
    /\ UNCHANGED <<ast, cOut, lexVars, parseVars>>

\* c, err := compiler.CompileC(statement), reached when Grow gave no error
CompileStep ==
    /\ ctxState = "grown"
    /\ ctxOut.ok
    /\ cOut' = CompileC(ctxOut.st)
    /\ ctxState' = "compiled"
    /\ UNCHANGED <<ast, ctxOut, lexVars, parseVars>>

NextContext == GrowStep \/ CompileStep

\* context.Grow called once more, on the tree a first call left without error
GrowAgainStep ==
    /\ ctxState = "grown"
    /\ ctxOut.ok
    /\ ast' = ctxOut.st
    /\ ctxOut' = Grow(ctxOut.st)
    /\ ctxState' = "regrown"
    /\ UNCHANGED <<cOut, lexVars, parseVars>>

NextRegrow == GrowStep \/ GrowAgainStep

-----------------------------------------------------------------------------
\* Bounds and input alphabets of the lexer specifications.

MaxTraceLen == 4

TraceAlphabet == {"\n", "a", "é", " ", ";", "f", "n"}

InitTrace == InitLexOver(TraceAlphabet, MaxTraceLen)

SpecTrace == InitTrace /\ [][NextLex]_vars

MaxLexLen == 3

LexAlphabet == {"a", "1", ".", "-", ">", "=", "?", "/", "*", "\n", "\"", "\t"}

InitLex == InitLexOver(LexAlphabet, MaxLexLen)

SpecLex == InitLex /\ [][NextLex]_vars

-----------------------------------------------------------------------------
(***************************************************************************)
(* Claims about the lexer.                                                 *)
(***************************************************************************)

\* C1: every token Tokenize returns, the final EOF included, has
\* 0 <= trace.index < len(source), trace.row >= 1 and trace.column >= 1.
C1_TokenTracesInSource ==
    lexState = "done" =>
        \A k \in 1..Len(tokens) :
            /\ 0 <= tokens[k].Index
            /\ tokens[k].Index < Len(text)
            /\ tokens[k].Row >= 1
            /\ tokens[k].Column >= 1

\* The characters some rule of the scanner takes when it meets them outside a
\* comment: punctuation and operators, the quote that opens a string,
\* whitespace, letters, and digits or '.' (which continue an identifier or
\* start a number).
RuleChars ==
    {"\n", ";", ":", ",", "(", ")", "{", "}", "[", "]", "+", "-", "*", "/", "%",
     "=", "\"", " ", "\r", "\t", "."} \cup Digits \cup Letters

\* C2: Tokenize fails exactly when the scanner meets, outside a comment and a
\* string, a character no rule accepts; the failure returns an error and no
\* tokens, every other input returns a token list and no error.
C2_FailsExactlyOnUnknownCharacter ==
    /\ [][(lexState = "scan" /\ index < Len(text)) =>
            ((lexState' = "error")
               <=> (isComment = 0 /\ at(text, index) \notin RuleChars))]_vars
    /\ [][(lexState = "scan" /\ index >= Len(text)) => lexState' = "done"]_vars
    /\ [](lexState = "error" => (tokens = <<>> /\ lexErr # NoErr))
    /\ [](lexState = "done" => (tokens # <<>> /\ lexErr = NoErr))

\* A source was refused at an unknown character that follows accepted ones.
C2_Witness == lexState = "error" /\ index > 0 /\ tokens = <<>> /\ lexErr # NoErr

-----------------------------------------------------------------------------
(***************************************************************************)
(* Expressions without parentheses: the inputs, and what the grammar says  *)
(* their tree is.                                                          *)
(***************************************************************************)

MaxOperands == 4

OperandTypes == {"Identifier", "Number", "String"}

OperatorTypes == {"Addition", "Subtraction", "Multiplication", "Division", "Modulus"}

DigitOf(k) == <<"1", "2", "3", "4", "5", "6", "7", "8", "9">>[k]

\* the value of the k-th operand: names, numbers and strings differ by position
OperandValue(type, k) ==
    CASE type = "Identifier" -> "v" \o DigitOf(k)
      [] type = "Number" -> DigitOf(k)
      [] type = "String" -> "s" \o DigitOf(k)
      [] OTHER -> IF k % 2 = 1 THEN "true" ELSE "false"

OperatorValue(type) ==
    CASE type = "Addition" -> "+"
      [] type = "Subtraction" -> "-"
      [] type = "Multiplication" -> "*"
      [] type = "Division" -> "/"
      [] OTHER -> "%"

\* operand (operator operand)* EOF
ExpressionTokens(operands, operators) ==
    TokensOf([k \in 1..(2 * Len(operands)) |->
                 IF k = 2 * Len(operands) THEN <<"EOF", "">>
                 ELSE IF k % 2 = 1
                     THEN <<operands[(k + 1) \div 2],
                            OperandValue(operands[(k + 1) \div 2], (k + 1) \div 2)>>
                 ELSE <<operators[k \div 2], OperatorValue(operators[k \div 2])>>])

InitExpr ==
    /\ CtxIdle
    /\ LexIdle
    /\ \E n \in 1..MaxOperands :
           \E operands \in [1..n -> OperandTypes],
              operators \in [1..(n - 1) -> OperatorTypes] :
               ptokens = ExpressionTokens(operands, operators)
    /\ parseState = "expression"
    /\ parseOut = NoErr

SpecExpr == InitExpr /\ [][ParseExpressionStep]_vars

\* the node kind and the operation the grammar gives a token
KindOfToken(type) ==
    CASE type = "Identifier" -> IdentifierExpression
      [] type = "Number" -> NumberLiteral
      [] type = "String" -> StringLiteral
      [] OTHER -> BooleanLiteral

OperationOfToken(type) ==
    CASE type = "Addition" -> AdditionOperation
      [] type = "Subtraction" -> SubtractionOperation
      [] type = "Multiplication" -> MultiplicationOperation
      [] type = "Division" -> DivisionOperation
      [] OTHER -> ModulusOperation

\* The tree of the tokens lo..hi (1-based) under the usual reading: * / % bind
\* tighter than + -, and operators of one level group from the left, so an
\* expression splits at its last + or -, or failing that at its last * / %.
RECURSIVE GrammarTree(_, _, _)
GrammarTree(toks, lo, hi) ==
    LET additive == {k \in lo..hi : toks[k].Type \in {"Addition", "Subtraction"}}
        multiplicative == {k \in lo..hi :
                              toks[k].Type \in {"Multiplication", "Division", "Modulus"}}
        last(S) == CHOOSE k \in S : \A j \in S : j <= k
        split == IF additive # {} THEN last(additive) ELSE last(multiplicative)
    IN IF lo = hi THEN [kind |-> KindOfToken(toks[lo].Type), value |-> toks[lo].Value]
       ELSE [op |-> OperationOfToken(toks[split].Type),
             l |-> GrammarTree(toks, lo, split - 1),
             r |-> GrammarTree(toks, split + 1, hi)]

\* no address occurs twice
NoRepeat(s) == \A a, b \in 1..Len(s) : s[a] = s[b] => a = b

\* C3: on primaries joined by + - * / % without parentheses, parseExpression
\* succeeds, consumes the whole expression and returns the tree the grammar
\* gives it (* / % above + -, each level grouped from the left); under the
\* returned node every operand and operator node is reached exactly once, so
\* no node is shared or its own descendant.
C3_PrecedenceAndLeftAssociativity ==
    parseState = "expressionDone" =>
        /\ parseOut.ok
        /\ parseOut.index = Len(ptokens) - 1
        /\ Tree(parseOut.heap, parseOut.st, Len(ptokens))
               = GrammarTree(ptokens, 1, Len(ptokens) - 1)
        /\ LET reached == Reached(parseOut.heap, parseOut.st, Len(ptokens))
           IN Len(reached) = Len(ptokens) - 2 /\ NoRepeat(reached)

\* v1 - 2 - v3 * 4 was parsed: the root subtracts, its left is the earlier
\* subtraction and its right the product.
C3_Witness ==
    /\ parseState = "expressionDone"
    /\ parseOut.ok
    /\ Len(ptokens) = 8
    /\ parseOut.st.Type = BinaryExpression
    /\ parseOut.st.Operator = SubtractionOperation
    /\ parseOut.heap[parseOut.st.Left].Type = BinaryExpression
    /\ parseOut.heap[parseOut.st.Left].Operator = SubtractionOperation
    /\ parseOut.heap[parseOut.st.Right].Type = BinaryExpression
    /\ parseOut.heap[parseOut.st.Right].Operator = MultiplicationOperation

-----------------------------------------------------------------------------
(***************************************************************************)
(* Programs given to ParseTokens: declarations `var x = E` over every      *)
(* short token string E, declarations in every combination of identifier,  *)
(* type, initialiser and terminator, and short programs of functions,      *)
(* scopes, imports and assignments.                                        *)
(***************************************************************************)

MaxExprToks == 7

ExprAlphabet == {"Number", "Addition", "Multiplication", "OpenParenthesis", "CloseParenthesis"}

PunctValue(type) ==
    CASE type = "Addition" -> "+"
      [] type = "Multiplication" -> "*"
      [] type = "OpenParenthesis" -> "("
      [] type = "CloseParenthesis" -> ")"
      [] type = "Colon" -> ":"
      [] type = "Comma" -> ","
      [] type = "Equals" -> "="
      [] type = "LF" -> "\n"
      [] type = "Semicolon" -> ";"
      [] type = "OpenCurlyBracket" -> "{"
      [] type = "CloseCurlyBracket" -> "}"
      [] type = "ArrowRight" -> "->"
      [] type = "Var" -> "var"
      [] type = "Const" -> "const"
      [] type = "Function" -> "fn"
      [] type = "Native" -> "native"
      [] type = "Import" -> "import"
      [] OTHER -> ""

P(type) == <<type, PunctValue(type)>>

Id(name) == <<"Identifier", name>>

Num(value) == <<"Number", value>>

\* the token string e, its numbers valued 1, 2, 3 ... in order of appearance
ExprKinds(e) ==
    [k \in 1..Len(e) |->
        IF e[k] = "Number"
            THEN Num(DigitOf(Cardinality({j \in 1..k : e[j] = "Number"})))
            ELSE P(e[k])]

\* var x = E LF EOF
VarXEquals(e) ==
    TokensOf(<<P("Var"), Id("x"), P("Equals")>> \o ExprKinds(e) \o <<P("LF"), P("EOF")>>)

DeclKeywords == {"Var", "Const"}
DeclIdentifiers == {"one", "two"}
DeclTypes == {"none", "int32", "void", "pair"}
DeclInitialisers == {"none", "one", "two"}
DeclTerminators == {"LF", "Semicolon", "none"}

\* (var | const) (x | (x, y)) [: int32 | : void | : (int32, int64)]
\*     [= 1 | = (1, 2)] [LF | ;] EOF
Declaration(keyword, ids, type, init, term) ==
    TokensOf(
        <<P(keyword)>>
        \o (IF ids = "one" THEN <<Id("x")>>
            ELSE <<P("OpenParenthesis"), Id("x"), P("Comma"), Id("y"),
                   P("CloseParenthesis")>>)
        \o (CASE type = "none" -> <<>>
              [] type = "int32" -> <<P("Colon"), Id("int32")>>
              [] type = "void" -> <<P("Colon"), Id("void")>>
              [] OTHER -> <<P("Colon"), P("OpenParenthesis"), Id("int32"), P("Comma"),
                            Id("int64"), P("CloseParenthesis")>>)
        \o (CASE init = "none" -> <<>>
              [] init = "one" -> <<P("Equals"), Num("1")>>
              [] OTHER -> <<P("Equals"), P("OpenParenthesis"), Num("1"), P("Comma"),
                            Num("2"), P("CloseParenthesis")>>)
        \o (IF term = "none" THEN <<>> ELSE <<P(term)>>)
        \o <<P("EOF")>>)

RECURSIVE Concat(_)
Concat(ss) == IF ss = <<>> THEN <<>> ELSE Head(ss) \o Concat(Tail(ss))

MaxListLen == 3

ListIdentifiers == <<Id("x"), Id("y"), Id("z"), Id("w")>>
ListTypes == <<Id("int32"), Id("int64"), Id("int8"), Id("int16")>>
ListExpressions == <<Num("1"), Num("2"), Num("3"), Num("4")>>

\* the first n of items, in parentheses with commas between them, or bare
Listed(items, n, parenthesised) ==
    LET separated == Concat([k \in 1..n |->
                                IF k < n THEN <<items[k], P("Comma")>> ELSE <<items[k]>>])
    IN IF parenthesised
           THEN <<P("OpenParenthesis")>> \o separated \o <<P("CloseParenthesis")>>
           ELSE separated

\* how many items a list has and whether it is parenthesised; a bare list has
\* one item
ListForms == {[n |-> n, par |-> TRUE] : n \in 1..MaxListLen} \cup {[n |-> 1, par |-> FALSE]}

NoList == [n |-> 0, par |-> FALSE]

\* (var | const) <identifiers> [: <types>] [= <expressions>] LF EOF
ListDeclaration(keyword, ids, types, exprs) ==
    TokensOf(
        <<P(keyword)>> \o Listed(ListIdentifiers, ids.n, ids.par)
        \o (IF types.n = 0 THEN <<>>
            ELSE <<P("Colon")>> \o Listed(ListTypes, types.n, types.par))
        \o (IF exprs.n = 0 THEN <<>>
            ELSE <<P("Equals")>> \o Listed(ListExpressions, exprs.n, exprs.par))
        \o <<P("LF"), P("EOF")>>)

MaxPieces == 3

\* fragments of programs
Pieces ==
    << <<P("Function"), Id("f"), P("OpenParenthesis"), P("CloseParenthesis"),
         P("OpenCurlyBracket")>>,
       <<P("CloseCurlyBracket")>>,
       <<P("OpenCurlyBracket")>>,
       <<P("Var"), Id("x"), P("Equals"), Num("1"), P("LF")>>,
       <<Id("x"), P("Equals"), Id("y"), P("LF")>>,
       <<P("Function"), P("Native"), Id("g"), P("OpenParenthesis"), Id("int32"), Id("a"),
         P("CloseParenthesis"), P("ArrowRight"), Id("int32"), P("LF")>>,
       <<P("Import"), <<"String", "m">>, P("LF")>>,
       <<Id("f"), P("OpenParenthesis"), P("CloseParenthesis"), P("LF")>>,
       <<P("OpenParenthesis"), Id("x"), P("Comma"), Id("y"), P("CloseParenthesis"),
         P("Equals"), P("OpenParenthesis"), Num("1"), P("Comma"), Num("2"),
         P("CloseParenthesis"), P("LF")>> >>

Program(choice) ==
    TokensOf(Concat([k \in 1..Len(choice) |-> Pieces[choice[k]]]) \o <<P("EOF")>>)

InitParse ==
    /\ CtxIdle
    /\ LexIdle
    /\ \/ \E n \in 1..MaxExprToks : \E e \in [1..n -> ExprAlphabet] :
             ptokens = VarXEquals(e)
       \/ \E keyword \in DeclKeywords, ids \in DeclIdentifiers, type \in DeclTypes,
             init \in DeclInitialisers, term \in DeclTerminators :
             ptokens = Declaration(keyword, ids, type, init, term)
       \/ \E n \in 0..MaxPieces : \E choice \in [1..n -> 1..Len(Pieces)] :
             ptokens = Program(choice)
    /\ parseState = "program"
    /\ parseOut = NoErr

SpecParse == InitParse /\ [][ParseTokensStep]_vars

-----------------------------------------------------------------------------
(***************************************************************************)
(* Claims about the parser's statements.                                   *)
(***************************************************************************)

\* var x = (1 + 2) * 3
ParenthesisedProduct ==
    VarXEquals(<<"OpenParenthesis", "Number", "Addition", "Number", "CloseParenthesis",
                 "Multiplication", "Number">>)

Leaf(value) == [kind |-> NumberLiteral, value |-> value]

\* C4: a parenthesised sub-expression is parsed as a primary:
\* `var x = (1 + 2) * 3` parses to a declaration whose single initialiser is
\* Mul(Add(1, 2), 3).
C4_ParenthesisedPrimary ==
    (parseState = "programDone" /\ ptokens = ParenthesisedProduct) =>
        /\ parseOut.ok
        /\ Len(parseOut.st.Children) = 1
        /\ LET declaration == parseOut.heap[parseOut.st.Children[1]] IN
           /\ declaration.Type = VariableDeclaration
           /\ Len(declaration.Expressions) = 1
           /\ Tree(parseOut.heap, parseOut.heap[declaration.Expressions[1]], MaxExprToks + 1)
                = [op |-> MultiplicationOperation,
                   l |-> [op |-> AdditionOperation, l |-> Leaf("1"), r |-> Leaf("2")],
                   r |-> Leaf("3")]

\* every ) closes an earlier (, and every ( is closed
Balanced(toks) ==
    LET opens(n) == Cardinality({k \in 1..n : toks[k].Type = "OpenParenthesis"})
        closes(n) == Cardinality({k \in 1..n : toks[k].Type = "CloseParenthesis"})
    IN /\ \A n \in 1..Len(toks) : closes(n) <= opens(n)
       /\ opens(Len(toks)) = closes(Len(toks))

\* some initialiser or assigned expression of the parsed program is, or holds,
\* the empty node Statement{}
HoldsEmptyNode(h) ==
    \E a \in 1..Len(h) :
        /\ h[a].Type \in {VariableDeclaration, VariableAssignment}
        /\ \E k \in 1..Len(h[a].Expressions) :
              LET e == h[a].Expressions[k]
                  under == Reached(h, h[e], Len(h))
              IN h[e] = Statement0 \/ \E j \in 1..Len(under) : h[under[j]] = Statement0

\* C5: ParseTokens answers an unexpected token or a structural violation with
\* a ParseError: a program it accepts has no unclosed or unopened parenthesis,
\* and no expression of it stands for a sub-expression that failed to parse.
C5_MalformedParenthesisRejected ==
    (parseState = "programDone" /\ parseOut.ok) =>
        Balanced(ptokens) /\ ~HoldsEmptyNode(parseOut.heap)

\* C6: a declaration without initialiser is accepted if and only if it carries
\* an explicit non-void type: `var x : int32` is accepted, with no
\* expressions; `var x` and `var x : void` are rejected.
C6_TypeOnlyDeclaration ==
    (parseState = "programDone" /\ \A k \in 1..Len(ptokens) : ptokens[k].Type # "Equals") =>
        \A keyword \in DeclKeywords, ids \in DeclIdentifiers, type \in DeclTypes,
           term \in DeclTerminators \ {"none"} :
            (ptokens = Declaration(keyword, ids, type, "none", term)
                 /\ (type = "pair" => ids = "two"))
              => /\ parseOut.ok <=> type \in {"int32", "pair"}
                 /\ parseOut.ok =>
                      /\ Len(parseOut.st.Children) = 1
                      /\ parseOut.heap[parseOut.st.Children[1]].Expressions = <<>>

-----------------------------------------------------------------------------
(***************************************************************************)
(* The context builder and the emitter on families of programs: functions *)
(* and calls without parameters, one native function with parameters and   *)
(* one call of it, one function with parameters and a body, and a          *)
(* declaration followed by uses of its variables.                          *)
(***************************************************************************)

MaxFnStatements == 3

\* fn f() { }
PlainF == functionOf("f", <<>>, <<>>, <<>>, scopeOf(<<>>), FALSE)

\* the statements of the first family
FnStatements ==
    << PlainF,
       \* fn f() { f() }
       functionOf("f", <<>>, <<>>, <<>>, scopeOf(<<callOf("f", <<>>)>>), FALSE),
       \* fn g() { f() }
       functionOf("g", <<>>, <<>>, <<>>, scopeOf(<<callOf("f", <<>>)>>), FALSE),
       \* fn g() { g(); f() }
       functionOf("g", <<>>, <<>>, <<>>,
                  scopeOf(<<callOf("g", <<>>), callOf("f", <<>>)>>), FALSE),
       \* fn g() { fn f() { } }
       functionOf("g", <<>>, <<>>, <<>>, scopeOf(<<PlainF>>), FALSE),
       \* native fn g()
       functionOf("g", <<>>, <<>>, <<>>, Node0, TRUE),
       \* f()
       callOf("f", <<>>),
       \* g()
       callOf("g", <<>>) >>

MaxParams == 2

MaxArgs == 3

ParamTypes == {Int32, Bool}

ParamNames == <<"p", "q", "r", "s">>

ArgumentExpressions == {numberOf("1"), booleanOf("true")}

\* native fn h(<types>); the last parameter variadic or not
Signature(types, variadic) ==
    functionOf("h", SubSeq(ParamNames, 1, Len(types)),
               [k \in 1..Len(types) |-> ArgType(types[k], variadic /\ k = Len(types))],
               <<>>, Node0, TRUE)

\* the bodies of the function with a body: statements on the
\* parameter p and on a local variable c
Bodies ==
    << <<>>,
       \* var c = 1
       <<declarationOf(FALSE, <<"c">>, <<Void>>, <<numberOf("1")>>)>>,
       \* var c = 1; c = 2
       <<declarationOf(FALSE, <<"c">>, <<Void>>, <<numberOf("1")>>),
         assignmentOf(<<"c">>, <<numberOf("2")>>)>>,
       \* var c = p
       <<declarationOf(FALSE, <<"c">>, <<Void>>, <<identifierOf("p")>>)>>,
       \* var c = p; c = p
       <<declarationOf(FALSE, <<"c">>, <<Void>>, <<identifierOf("p")>>),
         assignmentOf(<<"c">>, <<identifierOf("p")>>)>>,
       \* var c = 1; c = 2; c = 1
       <<declarationOf(FALSE, <<"c">>, <<Void>>, <<numberOf("1")>>),
         assignmentOf(<<"c">>, <<numberOf("2")>>),
         assignmentOf(<<"c">>, <<numberOf("1")>>)>> >>

\* fn h(<types>) { <body> }
Defined(types, body) ==
    functionOf("h", SubSeq(ParamNames, 1, Len(types)),
               [k \in 1..Len(types) |-> ArgType(types[k], FALSE)],
               <<>>, scopeOf(body), FALSE)

DeclaredTypeIds == {Void, Int32, Float32, Int64, Bool}

InitialiserExpressions ==
    {numberOf("1"), numberOf("2"), numberOf("2.5"), booleanOf("true"), identifierOf("a")}

MaxFollowers == 2

\* the statements that may follow the declaration
Followers ==
    << assignmentOf(<<"a">>, <<identifierOf("b")>>),
       assignmentOf(<<"b">>, <<identifierOf("a")>>),
       assignmentOf(<<"a">>, <<numberOf("1")>>),
       assignmentOf(<<"b">>, <<numberOf("2.5")>>),
       assignmentOf(<<"a", "b">>, <<booleanOf("true"), numberOf("2")>>),
       declarationOf(FALSE, <<"a">>, <<Int32>>, <<numberOf("1")>>) >>

Pick(menu, choice) == [k \in 1..Len(choice) |-> menu[choice[k]]]

InitContext ==
    /\ LexIdle /\ ParseIdle
    /\ ctxState = "tree" /\ ctxOut = NoErr /\ cOut = NoErr
    /\ \/ \E n \in 0..MaxFnStatements : \E choice \in [1..n -> 1..Len(FnStatements)] :
             ast = rootOf(Pick(FnStatements, choice))
       \/ \E n \in 0..MaxParams, m \in 0..MaxArgs :
             \E types \in [1..n -> ParamTypes], variadic \in BOOLEAN,
                arguments \in [1..m -> ArgumentExpressions] :
                 /\ (n = 0 => ~variadic)
                 /\ ast = rootOf(<<Signature(types, variadic), callOf("h", arguments)>>)
       \/ \E n \in 0..MaxParams, b \in 1..Len(Bodies), called \in BOOLEAN :
             \E types \in [1..n -> ParamTypes] :
                 ast = rootOf(<<Defined(types, Bodies[b])>>
                              \o (IF called
                                      THEN <<callOf("h", [k \in 1..n |->
                                                 IF types[k] = Bool THEN booleanOf("true")
                                                 ELSE numberOf("1")])>>
                                      ELSE <<>>))
       \/ \E constant \in BOOLEAN, type \in DeclaredTypeIds,
             expression \in InitialiserExpressions, n \in 0..MaxFollowers :
             \E choice \in [1..n -> 1..Len(Followers)] :
                 ast = rootOf(<<declarationOf(constant, <<"a">>, <<type>>, <<expression>>)>>
                              \o Pick(Followers, choice))
       \/ \E types \in [1..2 -> DeclaredTypeIds],
             expressions \in [1..2 -> InitialiserExpressions], n \in 0..MaxFollowers :
             \E choice \in [1..n -> 1..Len(Followers)] :
                 ast = rootOf(<<declarationOf(FALSE, <<"a", "b">>, types, expressions)>>
                              \o Pick(Followers, choice))

SpecContext == InitContext /\ [][NextContext]_vars

SpecRegrow == InitContext /\ [][NextRegrow]_vars

-----------------------------------------------------------------------------
(***************************************************************************)
(* Claims on the context builder.                                          *)
(***************************************************************************)

\* Grow has run on the tree
Grown == ctxState \in {"grown", "compiled"}

\* the statements of the tree handed to Grow, and what Grow left of them
Given == Elems(ast.Children)

Annotated == Elems(ctxOut.st.Children)

\* a program of functions without parameters, whose bodies hold calls and
\* function declarations, and of calls without arguments
PlainCall(s) == s.Type = FunctionExpression /\ s.Expressions = <<>>

PlainFunction(s) ==
    /\ s.Type = FunctionDeclaration /\ s.ArgTypes = <<>>
    /\ \A k \in 1..s.RunScope.Children.len :
          LET c == s.RunScope.Children.arr[k] IN
          PlainCall(c) \/ (c.Type = FunctionDeclaration /\ c.ArgTypes = <<>>)

PlainFunctions == \A k \in 1..Len(Given) : PlainCall(Given[k]) \/ PlainFunction(Given[k])

\* What the rule of C7 makes of the statements of a body, from statement k on,
\* with the names in `registered` resolvable: "" or the first error.
RECURSIVE ExpectedOfBody(_, _, _)
ExpectedOfBody(body, k, registered) ==
    IF k > Len(body) THEN ""
    ELSE IF body[k].Type = FunctionDeclaration
        THEN "Cannot declare function outside of root scope"
    ELSE IF body[k].Value \notin registered
        THEN "Undefined function " \o body[k].Value
    ELSE ExpectedOfBody(body, k + 1, registered)

\* the same of the statements of the program
RECURSIVE ExpectedOfProgram(_, _, _)
ExpectedOfProgram(program, k, registered) ==
    IF k > Len(program) THEN ""
    ELSE IF program[k].Type = FunctionExpression
        THEN IF program[k].Value \notin registered
                 THEN "Undefined function " \o program[k].Value
                 ELSE ExpectedOfProgram(program, k + 1, registered)
    ELSE IF program[k].Value \in registered
        THEN "Function " \o program[k].Value \o " is already declared"
    ELSE LET inBody == ExpectedOfBody(Elems(program[k].RunScope.Children), 1,
                                      registered \cup {program[k].Value})
         IN  IF inBody # "" THEN inBody
             ELSE ExpectedOfProgram(program, k + 1, registered \cup {program[k].Value})

\* C7: a function declaration is accepted only at the global scope and under
\* a name no registered function has, and it is registered before its body
\* is analysed: Grow accepts a program of plain functions and calls exactly
\* when no declaration stands in a body, no name is declared twice and every
\* call, the calls in a function's own body included, names a function
\* declared by then; otherwise it fails with the error of the first offence.
C7_FunctionDeclaredGloballyOnceBeforeBody ==
    (Grown /\ PlainFunctions) =>
        LET expected == ExpectedOfProgram(Given, 1, {}) IN
        IF expected = "" THEN ctxOut.ok
        ELSE ~ctxOut.ok /\ ctxOut.err.message = expected

\* fn f() { f() } first, a second function after it, and Grow accepted both
C7_Witness ==
    /\ Grown /\ PlainFunctions /\ ctxOut.ok
    /\ Len(Given) >= 2
    /\ Given[1].Type = FunctionDeclaration
    /\ Given[1].RunScope.Children.len = 1
    /\ Given[1].RunScope.Children.arr[1].Value = Given[1].Value
    /\ Given[2].Type = FunctionDeclaration


\* the program starts with a variable declaration
StartsWithDeclaration == Len(Given) >= 1 /\ Given[1].Type = VariableDeclaration

\* The type id of the expression of triple i of the first declaration, as the
\* language has it: a number with a fraction is a float32, any other number
\* an int32, a boolean a bool, and an identifier has the type of the variable
\* declared under its name by an earlier triple; "none" without one.
RECURSIVE TypeIdOfTriple(_)
TypeIdOfTriple(i) ==
    LET e == Given[1].Expressions[i]
        earlier == {j \in 1..(i - 1) : Given[1].Identifiers[j].Value = e.Value}
    IN  IF e.Type = BooleanExpression THEN Bool
        ELSE IF e.Type = NumberExpression
            THEN (IF e.Value \in {"2.5"} THEN Float32 ELSE Int32)
        ELSE IF earlier = {} THEN "none"
        ELSE LET j == CHOOSE j \in earlier : TRUE IN
             IF Given[1].Types[j].Id = Void THEN TypeIdOfTriple(j) ELSE Given[1].Types[j].Id

\* triple i of the first declaration passes the rule of C8
TriplePasses(i) ==
    /\ TypeIdOfTriple(i) # "none"
    /\ Given[1].Types[i].Id \in {Void, TypeIdOfTriple(i)}

\* C8: of the triples of a declaration, in order: a declared type that is not
\* Void and differs from the expression's type fails the pass with an error
\* naming the identifier; otherwise the type slot of the node holds the
\* expression's type afterwards (written over a Void, left as it was when
\* equal) and the variable registered under the name carries that type.
C8_DeclaredTypeCheckedOrBackFilled ==
    (Grown /\ StartsWithDeclaration) =>
        \A i \in 1..Len(Given[1].Expressions) :
            ((\A j \in 1..(i - 1) : TriplePasses(j)) /\ TypeIdOfTriple(i) # "none") =>
                LET name == Given[1].Identifiers[i].Value
                    declared == Given[1].Types[i]
                    inferred == TypeIdOfTriple(i)
                IN  IF declared.Id # Void /\ declared.Id # inferred
                        THEN /\ ~ctxOut.ok
                             /\ ctxOut.err.message
                                    = "Variable type of " \o name \o " does not match value"
                        ELSE /\ Annotated[1].Types[i].Id = inferred
                             /\ declared.Id # Void => Annotated[1].Types[i] = declared
                             /\ GetVariable(Annotated[1].Context, name) # Nil
                             /\ GetVariable(Annotated[1].Context, name).VarType.Id = inferred

\* var (a, b) : (<none>, int32) = (2.5, true): a is back-filled to float32
\* and registered, b is rejected by name
C8_Witness ==
    /\ Grown /\ StartsWithDeclaration
    /\ Len(Given[1].Expressions) = 2
    /\ Given[1].Types[1].Id = Void /\ Annotated[1].Types[1].Id = Float32
    /\ GetVariable(Annotated[1].Context, "a").VarType.Id = Float32
    /\ Given[1].Types[2].Id = Int32 /\ Given[1].Expressions[2].Type = BooleanExpression
    /\ ~ctxOut.ok
    /\ ctxOut.err.message = "Variable type of b does not match value"

\* the C name of a numeric type of the language
CTypeName(id) ==
    CASE id = Int32 -> "int32_t" [] id = Int64 -> "int64_t" [] id = Float32 -> "float"

\* the first statement declares a and b in parallel, both initialised with
\* an integer literal and declared with a numeric type
ParallelNumericDeclaration ==
    /\ StartsWithDeclaration
    /\ Len(Given[1].Identifiers) = 2
    /\ \A i \in 1..2 :
          /\ Given[1].Expressions[i].Type = NumberExpression
          /\ Given[1].Expressions[i].Value \in {"1", "2"}
          /\ Given[1].Types[i].Id \in {Int32, Int64, Float32}

\* C9: a parallel declaration whose integer literals initialise variables
\* declared with numeric types, int64 or float32 among them, passes the
\* context pass (both variables are registered) and is emitted as one C
\* declaration per identifier, in order, each with the C type of its
\* declared type.
C9_ParallelDeclarationEmittedWithDeclaredTypes ==
    (Grown /\ ParallelNumericDeclaration) =>
        /\ GetVariable(Annotated[1].Context, "a") # Nil
        /\ GetVariable(Annotated[1].Context, "b") # Nil
        /\ compileVariableDeclaration([Compiler0 EXCEPT !.indent = 0], Annotated[1]).content
               = CTypeName(Given[1].Types[1].Id) \o " a = "
                     \o Given[1].Expressions[1].Value \o ";\n"
                 \o CTypeName(Given[1].Types[2].Id) \o " b = "
                     \o Given[1].Expressions[2].Value \o ";"

\* the program is a function h with parameters and one call of h
SignatureAndCall ==
    /\ Len(Given) = 2
    /\ Given[1].Type = FunctionDeclaration /\ Given[1].Value = "h"
    /\ Given[2].Type = FunctionExpression /\ Given[2].Value = "h"

\* C10: a call is accepted only if it has an argument for every parameter
\* that is not variadic: as many arguments as parameters when the last
\* parameter is not variadic, no fewer than the parameters before the
\* variadic one when it is; and only if every argument, the extra ones against
\* the last parameter, has the type of its parameter.
C10_CallSuppliesEveryNonVariadicParameter ==
    (Grown /\ SignatureAndCall /\ ctxOut.ok) =>
        LET parameters == Given[1].ArgTypes
            arguments == Given[2].Expressions
            n == Len(parameters)
            variadic == n > 0 /\ parameters[n].Variadic
            typeOf(e) == IF e.Type = BooleanExpression THEN Bool ELSE Int32
        IN  /\ ~variadic => Len(arguments) = n
            /\ variadic => Len(arguments) >= n - 1
            /\ \A i \in 1..Len(arguments) :
                  typeOf(arguments[i]) = parameters[IF i > n THEN n ELSE i].Id

\* the statement mentions the name: as an identifier, on a side of a binary
\* expression, or among the identifiers and expressions of a declaration or
\* an assignment
RECURSIVE Mentions(_, _)
Mentions(s, name) ==
    IF s.Type = IdentifierExpression THEN s.Value = name
    ELSE IF s.Type = BinaryExpression
        THEN Mentions(s.Left, name) \/ Mentions(s.Right, name)
    ELSE IF s.Type \in {VariableDeclaration, VariableAssignment}
        THEN \/ \E k \in 1..Len(s.Identifiers) : s.Identifiers[k].Value = name
             \/ \E k \in 1..Len(s.Expressions) : Mentions(s.Expressions[k], name)
    ELSE FALSE

\* the names the declarations among the statements declare
DeclaredBy(statements) ==
    UNION {{statements[k].Identifiers[i].Value : i \in 1..Len(statements[k].Identifiers)} :
              k \in {j \in 1..Len(statements) : statements[j].Type = VariableDeclaration}}

\* the names of DeclaredBy that at most one of the statements mentions
UnderUsed(statements) ==
    {n \in DeclaredBy(statements) :
        Cardinality({k \in 1..Len(statements) : Mentions(statements[k], n)}) <= 1}

\* the statements are declarations and assignments only
DeclarationsOnly(statements) ==
    \A k \in 1..Len(statements) :
        statements[k].Type \in {VariableDeclaration, VariableAssignment}

\* every declaration and assignment left by Grow was analysed to its last
\* identifier
AllAnalysed(left) ==
    \A k \in 1..Len(left) :
        \/ left[k].Type = MemoryDeAllocation
        \/ /\ left[k].ContextVariable # Nil
           /\ left[k].ContextVariable.VarName
                  = left[k].Identifiers[Len(left[k].Identifiers)].Value

\* the rule of C11 on the statements of one scope and what Grow left of them
UnusedRule(statements, left) ==
    /\ ctxOut.ok => UnderUsed(statements) = {}
    /\ (AllAnalysed(left) /\ UnderUsed(statements) # {}) =>
           /\ ~ctxOut.ok
           /\ ctxOut.err.message
                  \in {"Unused variable " \o n : n \in DeclaredBy(statements)}
    /\ (AllAnalysed(left) /\ statements[1].Identifiers[1].Value \in UnderUsed(statements)) =>
           ctxOut.err.message = "Unused variable " \o statements[1].Identifiers[1].Value

\* the program is one function with a body, and perhaps a call of it
FunctionWithBody ==
    /\ Len(Given) >= 1
    /\ Given[1].Type = FunctionDeclaration /\ ~Given[1].Native
    /\ DeclarationsOnly(Elems(Given[1].RunScope.Children))

\* C11: once the statements of a scope are analysed, the pass fails with
\* "Unused variable <name>" when a variable declared in the scope, not a
\* parameter, is mentioned by at most one of the scope's statements, its
\* declaration counting; and no parameter is ever reported, used or not.
C11_UnusedVariableRejectedParametersExempt ==
    /\ (Grown /\ Len(Given) >= 1 /\ DeclarationsOnly(Given)) => UnusedRule(Given, Annotated)
    /\ (Grown /\ FunctionWithBody) =>
           /\ Len(Given[1].RunScope.Children.arr) > 0 =>
                  UnusedRule(Elems(Given[1].RunScope.Children),
                             Elems(Annotated[1].RunScope.Children))
           /\ ~ctxOut.ok =>
                  ctxOut.err.message
                      \notin {"Unused variable " \o Given[1].ArgNames[k] :
                                 k \in 1..Len(Given[1].ArgNames)}

\* fn h(p, q) { var c = 1 }: c is reported, and neither p nor q, which
\* stand before c in the scope and are mentioned nowhere
C11_Witness ==
    /\ Grown /\ FunctionWithBody
    /\ Len(Given[1].ArgNames) = 2
    /\ Given[1].RunScope.Children.len = 1
    /\ UnderUsed(Elems(Given[1].RunScope.Children)) = {"c"}
    /\ ~Mentions(Given[1].RunScope.Children.arr[1], "p")
    /\ ~ctxOut.ok
    /\ ctxOut.err.message = "Unused variable c"

\* the number of MemoryDeAllocation nodes among the statements that refer to
\* the variable of the name
DeAllocationsOf(left, name) ==
    Cardinality({k \in 1..Len(left) :
                    /\ left[k].Type = MemoryDeAllocation
                    /\ left[k].ContextVariable # Nil
                    /\ left[k].ContextVariable.VarName = name})

\* C12: after a pass without error, the statements of a scope hold exactly
\* one MemoryDeAllocation for every variable declared in the scope, and none
\* for a parameter of the function the scope is the body of.
C12_OneDeAllocationPerVariableNoneForParameters ==
    /\ (Grown /\ ctxOut.ok /\ DeclarationsOnly(Given)) =>
           \A n \in DeclaredBy(Given) : DeAllocationsOf(Annotated, n) = 1
    /\ (Grown /\ ctxOut.ok /\ FunctionWithBody) =>
           /\ \A n \in DeclaredBy(Elems(Given[1].RunScope.Children)) :
                  DeAllocationsOf(Elems(Annotated[1].RunScope.Children), n) = 1
           /\ \A k \in 1..Len(Given[1].ArgNames) :
                  DeAllocationsOf(Elems(Annotated[1].RunScope.Children),
                                  Given[1].ArgNames[k]) = 0

\* a tree with the statements of every scope as a sequence, whatever the
\* capacity of the slice that holds them
RECURSIVE Canon(_)
Canon(node) ==
    [node EXCEPT !.Children = [k \in 1..node.Children.len |-> Canon(node.Children.arr[k])],
                 !.RunScope = IF node.RunScope = Nil THEN Nil ELSE Canon(node.RunScope)]

\* C13: Grow on the tree a first Grow left without error succeeds and leaves
\* the tree as it was: the same statements in every scope, no further
\* MemoryDeAllocation, the same types.
C13_GrowIdempotent ==
    ctxState = "regrown" => (ctxOut.ok /\ Canon(ctxOut.st) = Canon(ast))

-----------------------------------------------------------------------------
(***************************************************************************)
(* The emitter on trees handed to CompileC directly.                       *)
(***************************************************************************)

MaxFrees == 2

\* a MemoryDeAllocation for an int32 variable of the name, marked allocated
\* or not
Free(name, allocated) ==
    deAllocation(Scope0, [newVar(name, ActualType(Int32), FALSE, numberOf("1"))
                             EXCEPT !.ALLOCATED = allocated])

FreeChoices == {Free(name, allocated) : name \in {"a", "b"}, allocated \in BOOLEAN}

MaxLeaves == 4

LeafNames == <<"a", "b", "c", "d", "e", "f">>

BinaryOperations ==
    {AdditionOperation, SubtractionOperation, MultiplicationOperation,
     DivisionOperation, ModulusOperation}

\* every binary-expression tree whose leaves are, from left to right, the
\* identifiers lo..hi of LeafNames
RECURSIVE ExpressionTrees(_, _)
ExpressionTrees(lo, hi) ==
    IF lo = hi THEN {identifierOf(LeafNames[lo])}
    ELSE UNION {{binaryOf(operator, left, right) :
                    operator \in BinaryOperations,
                    left \in ExpressionTrees(lo, m),
                    right \in ExpressionTrees(m + 1, hi)} : m \in lo..(hi - 1)}

\* statements of kinds compile has no case for, and functions without run
\* scope
Unlowerable ==
    {[Node0 EXCEPT !.Type = kind, !.Value = value] :
        kind \in {FunctionExpression, StringLiteral, NullLiteral, ImportStatement},
        value \in {"f", "s"}}
    \cup {functionOf("h", <<>>, <<>>, types, Nil, native) :
              types \in {<<>>, <<Int32>>, <<Int32, Bool>>}, native \in BOOLEAN}

\* the trees of the emitter's families: deallocations, the assignment of a
\* binary expression, and a statement without lowering, alone, after another
\* statement or in the body of a function
EmitterTrees ==
    {rootOf(frees) : frees \in UNION {[1..n -> FreeChoices] : n \in 1..MaxFrees}}
    \cup {rootOf(<<assignmentOf(<<"x">>, <<tree>>)>>) :
              tree \in UNION {ExpressionTrees(1, n) : n \in 2..MaxLeaves}}
    \cup UNION {{rootOf(<<odd>>),
                 rootOf(<<Free("a", FALSE), odd>>),
                 rootOf(<<functionOf("g", <<>>, <<>>, <<>>, scopeOf(<<odd>>), FALSE)>>)} :
                    odd \in Unlowerable}

InitEmit ==
    /\ LexIdle /\ ParseIdle
    /\ \E tree \in EmitterTrees :
          /\ ast = tree
          /\ ctxOut = COk(Scope0, tree)
    /\ ctxState = "grown"
    /\ cOut = NoErr

SpecEmit == InitEmit /\ [][CompileStep]_vars

\* the tree is a root with one MemoryDeAllocation
OneFree == Len(Given) = 1 /\ Given[1].Type = MemoryDeAllocation

\* C14: a MemoryDeAllocation is lowered to free(<name>); with the include of
\* stdlib.h when its variable is marked allocated, and to nothing, with no
\* include, when it is not.
C14_FreeEmittedIffAllocated ==
    (ctxState = "compiled" /\ OneFree) =>
        /\ cOut.ok
        /\ cOut.text = IF Given[1].ContextVariable.ALLOCATED
                           THEN "#include \"stdlib.h\"\n"
                                \o "free(" \o Given[1].ContextVariable.VarName \o ");\n"
                           ELSE ""

\* the tree is a root with the assignment of one binary expression
OneBinaryAssignment ==
    /\ Len(Given) = 1
    /\ Given[1].Type = VariableAssignment
    /\ Given[1].Expressions[1].Type = BinaryExpression

\* what precedes the expression in the text of such a tree
Prologue == "#include \"sys/types.h\"\nx = "

\* the expression in the emitted text
ExpressionText == SubSeq(cOut.text, Len(Prologue) + 1, Len(cOut.text) - 2)

At(emitted, k) == SubSeq(emitted, k, k)

\* the positions of lo..hi outside every parenthesis opened in lo..hi
Outside(emitted, lo, hi) ==
    {k \in lo..hi :
        Cardinality({j \in lo..(k - 1) : At(emitted, j) = "("})
            = Cardinality({j \in lo..k : At(emitted, j) = ")"})}

\* The tree C reads in emitted[lo..hi]: * / % bind tighter than + -, operators of
\* one level group from the left, parentheses group first.
RECURSIVE ReadC(_, _, _)
ReadC(emitted, lo, hi) ==
    LET additive == {k \in Outside(emitted, lo, hi) : At(emitted, k) \in {"+", "-"}}
        multiplicative == {k \in Outside(emitted, lo, hi) : At(emitted, k) \in {"*", "/", "%"}}
        last(S) == CHOOSE k \in S : \A j \in S : j <= k
        split == IF additive # {} THEN last(additive) ELSE last(multiplicative)
    IN IF lo > hi THEN [unreadable |-> TRUE]
       ELSE IF additive \cup multiplicative # {}
           THEN [op |-> At(emitted, split),
                 l |-> ReadC(emitted, lo, split - 1),
                 r |-> ReadC(emitted, split + 1, hi)]
       ELSE IF At(emitted, lo) = "(" /\ At(emitted, hi) = ")" THEN ReadC(emitted, lo + 1, hi - 1)
       ELSE IF lo = hi THEN [value |-> At(emitted, lo)]
       ELSE [unreadable |-> TRUE]

\* the tree of an expression node, in the same form
RECURSIVE Denoted(_)
Denoted(node) ==
    IF node.Type = BinaryExpression
        THEN [op |-> operatorText(node.Operator),
              l |-> Denoted(node.Left), r |-> Denoted(node.Right)]
        ELSE [value |-> node.Value]

\* C15: the infix text emitted for a binary-expression tree over + - * / %,
\* read with C precedence and grouping from the left, denotes the same tree.
C15_EmittedExpressionDenotesTree ==
    (ctxState = "compiled" /\ OneBinaryAssignment) =>
        /\ cOut.ok
        /\ cOut.text = Prologue \o ExpressionText \o ";\n"
        /\ ReadC(ExpressionText, 1, Len(ExpressionText)) = Denoted(Given[1].Expressions[1])

\* the kinds compile has a case for (part_009 64-79)
LoweredKinds ==
    {SkipStatement, Root, ScopeDeclaration, FunctionDeclaration, VariableDeclaration,
     VariableAssignment, BinaryExpression, IdentifierExpression, NumberExpression,
     BooleanExpression, MemoryDeAllocation}

\* some statement of the tree is of a kind without lowering, or is a
\* non-native function without run scope
RECURSIVE BreaksEmitter(_)
BreaksEmitter(node) ==
    \/ node.Type \notin LoweredKinds
    \/ node.Type = FunctionDeclaration /\ ~node.Native /\ node.RunScope = Nil
    \/ node.Type = FunctionDeclaration /\ node.RunScope # Nil /\ BreaksEmitter(node.RunScope)
    \/ \E k \in 1..Len(Elems(node.Children)) : BreaksEmitter(Elems(node.Children)[k])

\* C16: for a tree with a statement of a kind the emitter has no lowering
\* for, or with a non-native function without run scope, CompileC returns an
\* error and no C text.
C16_EmitterInvariantViolationIsAnError ==
    (ctxState = "compiled" /\ BreaksEmitter(ast)) => (~cOut.ok /\ cOut.text = "")

-----------------------------------------------------------------------------
(***************************************************************************)
(* Comments (lexer.go 98-139)                                              *)
(***************************************************************************)

MaxCommentLen == 5

CommentAlphabet == {"/", "*", "\n", "a"}

InitComment == InitLexOver(CommentAlphabet, MaxCommentLen)

SpecComment == InitComment /\ [][NextLex]_vars

\* The positions and comment modes of a scan of t from position i in the
\* mode given (0 none, 1 line, 2 block) in which only /* opens and only the
\* first */ closes a block comment, and only // opens and only the next
\* line feed closes a line comment.  Outside comments every rune of
\* CommentAlphabet is one scanning step.
RECURSIVE CommentScan(_, _, _)
CommentScan(t, i, mode) ==
    {<<i, mode>>} \cup
    (IF i >= Len(t) THEN {}
     ELSE IF mode = 2
         THEN IF at(t, i) = "*" /\ at(t, i + 1) = "/" THEN CommentScan(t, i + 2, 0)
              ELSE CommentScan(t, i + 1, 2)
     ELSE IF mode = 1
         THEN IF at(t, i) = "\n" THEN CommentScan(t, i + 1, 0)
              ELSE CommentScan(t, i + 1, 1)
     ELSE IF at(t, i) = "/" /\ at(t, i + 1) = "/" THEN CommentScan(t, i + 2, 1)
     ELSE IF at(t, i) = "/" /\ at(t, i + 1) = "*" THEN CommentScan(t, i + 2, 2)
     ELSE CommentScan(t, i + 1, 0))

\* C17: a block comment is closed by the first */ after its /* and by
\* nothing else, a line comment by the next line feed and by nothing else;
\* the characters of a comment produce no token and leave the mode alone,
\* and scanning resumes right after the end of the comment.
C17_CommentsEndOnlyAtTheirTerminator ==
    [][/\ (lexState = "scan" /\ isComment > 0 /\ lexState' = "scan") => tokens' = tokens
       /\ lexState' = "scan" => <<index', isComment'>> \in CommentScan(text, 0, 0)]_vars

-----------------------------------------------------------------------------
(***************************************************************************)
(* String literals (lexer.go 390-421)                                      *)
(***************************************************************************)

MaxStringLen == 6

StringAlphabet == {"\"", "\\", "a"}

InitString == InitLexOver(StringAlphabet, MaxStringLen)

SpecString == InitString /\ [][NextLex]_vars

\* the number of backslashes that stand in a row right before rune k of t
\* (1-based)
RECURSIVE BackslashesBefore(_, _)
BackslashesBefore(t, k) ==
    IF k > 1 /\ t[k - 1] = "\\" THEN 1 + BackslashesBefore(t, k - 1) ELSE 0

\* a quote that is not escaped: an even number of backslashes precedes it
Unescaped(t, k) == t[k] = "\"" /\ BackslashesBefore(t, k) % 2 = 0

\* the end of the string opened by rune 1 of t: its first unescaped quote, or
\* the end of the source
ClosingQuote(t) ==
    IF \E k \in 2..Len(t) : Unescaped(t, k)
        THEN CHOOSE k \in 2..Len(t) :
                 Unescaped(t, k) /\ \A j \in 2..(k - 1) : ~Unescaped(t, j)
        ELSE Len(t) + 1

\* the source opens with a quote and Tokenize has read the string
StringRead == Len(text) >= 1 /\ text[1] = "\"" /\ index > 0

\* C18: inside a string literal a quote closes the string exactly when an
\* even number of backslashes precedes it.
C18_QuoteClosesIffEvenBackslashes ==
    StringRead =>
        /\ Len(tokens) >= 1
        /\ tokens[1].Type = "String"
        /\ tokens[1].Value = Join(SubSeq(text, 2, ClosingQuote(text) - 1))

-----------------------------------------------------------------------------
(***************************************************************************)
(* The lists of a declaration (parser.go 448-693)                          *)
(***************************************************************************)

InitDeclaration ==
    /\ CtxIdle
    /\ LexIdle
    /\ \E keyword \in DeclKeywords, ids \in ListForms, types \in ListForms \cup {NoList},
          exprs \in ListForms \cup {NoList} :
          ptokens = ListDeclaration(keyword, ids, types, exprs)
    /\ parseState = "program"
    /\ parseOut = NoErr

SpecDeclaration == InitDeclaration /\ [][ParseTokensStep]_vars

\* the VariableDeclaration nodes of a heap that have an initialiser
InitialisedDeclarations(h) ==
    {a \in 1..Len(h) : h[a].Type = VariableDeclaration /\ h[a].Expressions # <<>>}

\* the counts of the lists agree: as many expressions as identifiers, and no
\* type, one type or as many types as identifiers
CountsAgree(ids, types, exprs) == exprs.n = ids.n /\ types.n \in {0, 1, ids.n}

\* the types of the node for the types written: none leaves every slot Void,
\* one declares every identifier, several declare one identifier each
TypesWritten(ids, types) ==
    [k \in 1..ids.n |->
        IF types.n = 0 THEN ActualType(Void)
        ELSE parseType(Tok(ListTypes[IF types.n = 1 THEN 1 ELSE k][1],
                           ListTypes[IF types.n = 1 THEN 1 ELSE k][2], 0)).type]

\* C19: a VariableDeclaration node with an initialiser has as many
\* expressions and types as identifiers, for bare and parenthesised lists of
\* identifiers, types and expressions alike; a single declared type is given
\* to every identifier, and every other mismatch of the counts is a parse
\* error.
C19_DeclarationListsHaveEqualLength ==
    parseState = "programDone" =>
        /\ parseOut.ok =>
             \A a \in InitialisedDeclarations(parseOut.heap) :
                 /\ Len(parseOut.heap[a].Identifiers) = Len(parseOut.heap[a].Expressions)
                 /\ Len(parseOut.heap[a].Types) = Len(parseOut.heap[a].Expressions)
        /\ \A keyword \in DeclKeywords, ids \in ListForms,
              types \in ListForms \cup {NoList}, exprs \in ListForms :
               ptokens = ListDeclaration(keyword, ids, types, exprs) =>
                   IF CountsAgree(ids, types, exprs)
                       THEN /\ parseOut.ok
                            /\ Len(parseOut.st.Children) = 1
                            /\ parseOut.heap[parseOut.st.Children[1]].Type = VariableDeclaration
                            /\ Len(parseOut.heap[parseOut.st.Children[1]].Identifiers) = ids.n
                            /\ Len(parseOut.heap[parseOut.st.Children[1]].Expressions) = ids.n
                            /\ parseOut.heap[parseOut.st.Children[1]].Types
                                 = TypesWritten(ids, types)
                       ELSE /\ ~parseOut.ok
                            /\ "message" \in DOMAIN parseOut.err

\* var (x, y, z) : int32 = (1, 2, 3) is parsed with the types int32, int32, int32
C19_Witness ==
    /\ parseState = "programDone"
    /\ ptokens = ListDeclaration("Var", [n |-> 3, par |-> TRUE], [n |-> 1, par |-> FALSE],
                                 [n |-> 3, par |-> TRUE])
    /\ parseOut.ok
    /\ parseOut.heap[parseOut.st.Children[1]].Types
         = <<ActualType(Int32), ActualType(Int32), ActualType(Int32)>>
    /\ Len(parseOut.heap[parseOut.st.Children[1]].Identifiers) = 3
    /\ Len(parseOut.heap[parseOut.st.Children[1]].Expressions) = 3

-----------------------------------------------------------------------------
(***************************************************************************)
(* The traces of the parsed nodes (parser.go 55-107, 254-305)              *)
(***************************************************************************)

\* the addresses a node points at
PointedAt(h, st) ==
    {a \in 1..Len(h) :
        \/ a \in {st.Left, st.Right, st.RunScope}
        \/ \E k \in 1..Len(st.Children) : st.Children[k] = a
        \/ \E k \in 1..Len(st.Identifiers) : st.Identifiers[k] = a
        \/ \E k \in 1..Len(st.Expressions) : st.Expressions[k] = a}

\* the addresses of the nodes under a node, at most fuel pointers away
RECURSIVE NodesUnder(_, _, _)
NodesUnder(h, st, fuel) ==
    IF fuel = 0 THEN {}
    ELSE PointedAt(h, st)
         \cup UNION {NodesUnder(h, h[a], fuel - 1) : a \in PointedAt(h, st)}

\* C20: after a successful parse every node under the root has its trace
\* set to a source location with row >= 1 and column >= 1.
C20_EveryNodeHasATrace ==
    (parseState = "programDone" /\ parseOut.ok) =>
        \A a \in NodesUnder(parseOut.heap, parseOut.st, Len(parseOut.heap)) :
            parseOut.heap[a].Type # Root =>
                parseOut.heap[a].Trace.Row >= 1 /\ parseOut.heap[a].Trace.Column >= 1

-----------------------------------------------------------------------------
(***************************************************************************)
(* Scopes: global variables, functions whose bodies declare or use         *)
(* variables, blocks and native functions (builder.go 155-294, 388-477).   *)
(***************************************************************************)

MaxScopeStatements == 4

\* fn <name>() { <body> }
Plain(name, body) == functionOf(name, <<>>, <<>>, <<>>, scopeOf(body), FALSE)

ScopeStatements ==
    << \* var a = 1
       declarationOf(FALSE, <<"a">>, <<Void>>, <<numberOf("1")>>),
       \* a = 2
       assignmentOf(<<"a">>, <<numberOf("2")>>),
       \* var b = a
       declarationOf(FALSE, <<"b">>, <<Void>>, <<identifierOf("a")>>),
       \* b = 2
       assignmentOf(<<"b">>, <<numberOf("2")>>),
       \* fn h() { var a = 1; a = 2 }
       Plain("h", <<declarationOf(FALSE, <<"a">>, <<Void>>, <<numberOf("1")>>),
                    assignmentOf(<<"a">>, <<numberOf("2")>>)>>),
       \* fn k() { a = 2 }
       Plain("k", <<assignmentOf(<<"a">>, <<numberOf("2")>>)>>),
       \* fn m(int32 p) { var c = p; c = p }
       functionOf("m", <<"p">>, <<ArgType(Int32, FALSE)>>, <<>>,
                  scopeOf(<<declarationOf(FALSE, <<"c">>, <<Void>>, <<identifierOf("p")>>),
                            assignmentOf(<<"c">>, <<identifierOf("p")>>)>>), FALSE),
       \* { a = 2 }
       scopeOf(<<assignmentOf(<<"a">>, <<numberOf("2")>>)>>),
       \* { }
       scopeOf(<<>>),
       \* native fn g()
       functionOf("g", <<>>, <<>>, <<>>, Node0, TRUE) >>

InitScope ==
    /\ LexIdle /\ ParseIdle
    /\ ctxState = "tree" /\ ctxOut = NoErr /\ cOut = NoErr
    /\ \E n \in 0..MaxScopeStatements : \E choice \in [1..n -> 1..Len(ScopeStatements)] :
          ast = rootOf(Pick(ScopeStatements, choice))

SpecScope == InitScope /\ [][NextContext]_vars

VariableNames == {"a", "b", "c", "p"}

\* how many declarations among the statements declare the name
TimesDeclared(statements, name) ==
    Cardinality({k \in 1..Len(statements) :
                    /\ statements[k].Type = VariableDeclaration
                    /\ \E i \in 1..Len(statements[k].Identifiers) :
                          statements[k].Identifiers[i].Value = name})

\* the name is bound twice in one scope of the program: by two declarations
\* of the root, or in the body of one function by two declarations or by a
\* parameter and a declaration
BoundTwiceInOneScope(name) ==
    \/ TimesDeclared(Given, name) >= 2
    \/ \E k \in 1..Len(Given) :
          /\ Given[k].Type = FunctionDeclaration /\ ~Given[k].Native
          /\ LET body == Elems(Given[k].RunScope.Children)
                 parameter == \E i \in 1..Len(Given[k].ArgNames) : Given[k].ArgNames[i] = name
             IN TimesDeclared(body, name) + (IF parameter THEN 1 ELSE 0) >= 2

\* C21: a declaration is rejected as a duplicate only when its name is
\* already bound in the scope it stands in; a name bound in an enclosing
\* scope only may be declared again.
C21_DuplicateOnlyInInnermostScope ==
    \A name \in VariableNames :
        (Grown /\ ~ctxOut.ok
           /\ ctxOut.err.message = "Variable " \o name \o " is already declared")
          => BoundTwiceInOneScope(name)

\* the node is the MemoryDeAllocation of the variable named
FreeOf(node, name) ==
    /\ node.Type = MemoryDeAllocation
    /\ node.ContextVariable # Nil
    /\ node.ContextVariable.VarName = name

\* the place of the declaration of the name among the statements: the
\* statement, then the identifier within it
PlaceDeclared(statements, name) ==
    CHOOSE place \in (1..Len(statements)) \X (1..MaxScopeStatements) :
        /\ statements[place[1]].Type = VariableDeclaration
        /\ place[2] <= Len(statements[place[1]].Identifiers)
        /\ statements[place[1]].Identifiers[place[2]].Value = name
        /\ \A k \in 1..(place[1] - 1) : TimesDeclared(<<statements[k]>>, name) = 0

DeclaredBefore(statements, first, second) ==
    LET a == PlaceDeclared(statements, first)
        b == PlaceDeclared(statements, second)
    IN a[1] < b[1] \/ (a[1] = b[1] /\ a[2] < b[2])

\* the last statement before position k of the list that is no
\* MemoryDeAllocation, or 0
StatementBefore(left, k) ==
    LET earlier == {j \in 1..(k - 1) : left[j].Type # MemoryDeAllocation}
    IN IF earlier = {} THEN 0 ELSE CHOOSE j \in earlier : \A i \in earlier : i <= j

\* the last statement of the list that mentions the name, or 0
LastUse(left, name) ==
    LET uses == {j \in 1..Len(left) : Mentions(left[j], name)}
    IN IF uses = {} THEN 0 ELSE CHOOSE j \in uses : \A i \in uses : i <= j

\* C22: after a pass without error the MemoryDeAllocation of each variable
\* stands directly after the last statement of the scope that uses the
\* variable, with nothing but MemoryDeAllocation nodes between them, and
\* MemoryDeAllocation nodes that follow one another are in the order of the
\* declarations.
C22_DeAllocationDirectlyAfterLastUse ==
    (Grown /\ ctxOut.ok /\ DeclarationsOnly(Given)) =>
        \A name \in DeclaredBy(Given) : \A k \in 1..Len(Annotated) :
            FreeOf(Annotated[k], name) =>
                /\ StatementBefore(Annotated, k) = LastUse(Annotated, name)
                /\ \A other \in DeclaredBy(Given) :
                       (k < Len(Annotated) /\ FreeOf(Annotated[k + 1], other))
                           => DeclaredBefore(Given, name, other)

\* the statements of the tree that are blocks: a ScopeDeclaration that is no
\* function's body
Blocks == {k \in 1..Len(Given) : Given[k].Type = ScopeDeclaration}

\* C23: for a block that is not the body of a function the pass makes a
\* child scope of the enclosing scope, puts no variable in it beforehand,
\* analyses the statements of the block and returns an error value or
\* success; it never crashes.
C23_BlockAnalysedInChildScope ==
    (Grown /\ Blocks # {}) =>
        /\ "panic" \notin DOMAIN ctxOut.err
        /\ ctxOut.ok =>
               \A k \in Blocks :
                   /\ Annotated[k].Context.Parent # Nil
                   /\ \A i \in 1..Len(Annotated[k].Context.Vars) :
                          ~Annotated[k].Context.Vars[i].VarOfFunction

-----------------------------------------------------------------------------
(***************************************************************************)
(* The includes of the emitted text (part_009 37-61, 308-381)              *)
(***************************************************************************)

\* the places of the text where the word stands
Occurrences(emitted, word) ==
    {i \in 1..(Len(emitted) - Len(word) + 1) :
        SubSeq(emitted, i, i + Len(word) - 1) = word}

SizedIntegerTypes ==
    {"int8_t", "int16_t", "int32_t", "int64_t",
     "uint8_t", "uint16_t", "uint32_t", "uint64_t"}

IncludeLine(path) == "#include \"" \o path \o "\"\n"

\* C24: when the text CompileC returns mentions a sized integer type, it
\* includes sys/types.h, and no path is included twice.
C24_SizedIntegersIncludeSysTypes ==
    (ctxState = "compiled" /\ cOut.ok) =>
        /\ (\E word \in SizedIntegerTypes : Occurrences(cOut.text, word) # {})
              => Occurrences(cOut.text, IncludeLine("sys/types.h")) # {}
        /\ \A path \in {"sys/types.h", "stdlib.h"} :
               Cardinality(Occurrences(cOut.text, IncludeLine(path))) <= 1

-----------------------------------------------------------------------------
(***************************************************************************)
(* The place of the MemoryDeAllocation nodes and the count of the uses     *)
(* (builder.go 388-477)                                                    *)
(***************************************************************************)

\* no statement of the list mentions a variable after its MemoryDeAllocation
NoUseAfterFree(left) ==
    \A name \in VariableNames : \A k \in 1..Len(left) :
        FreeOf(left[k], name) =>
            \A j \in (k + 1)..Len(left) : ~Mentions(left[j], name)

\* C25: after a pass without error no statement of a scope that uses a
\* variable stands after the MemoryDeAllocation of the variable, in the
\* root's list and in the body of every function.
C25_NoUseAfterDeAllocation ==
    (Grown /\ ctxOut.ok) =>
        /\ NoUseAfterFree(Annotated)
        /\ \A k \in 1..Len(Annotated) :
               (Annotated[k].Type = FunctionDeclaration /\ ~Annotated[k].Native
                  /\ Annotated[k].RunScope # Nil)
                 => NoUseAfterFree(Elems(Annotated[k].RunScope.Children))

\* the statement lists of the program: the root's, and the body of every
\* function that has one
ScopeLists ==
    {Given} \cup {Elems(Given[k].RunScope.Children) :
                    k \in {j \in 1..Len(Given) :
                              Given[j].Type = FunctionDeclaration /\ ~Given[j].Native}}

\* how many statements of the list mention the name
TimesUsed(statements, name) ==
    Cardinality({k \in 1..Len(statements) : Mentions(statements[k], name)})

\* the name is declared in the program, and two or more statements mention it
\* in every list that declares it
UsedTwiceWhereDeclared(name) ==
    /\ \E statements \in ScopeLists : TimesDeclared(statements, name) > 0
    /\ \A statements \in ScopeLists :
           TimesDeclared(statements, name) > 0 => TimesUsed(statements, name) >= 2

\* C26: a variable that two or more statements of the scope that declares it
\* use is never reported as unused.
C26_VariableUsedTwiceNeverUnused ==
    \A name \in VariableNames :
        (Grown /\ ~ctxOut.ok /\ UsedTwiceWhereDeclared(name))
          => ctxOut.err.message # "Unused variable " \o name

\* the statement uses the variable of the enclosing scope, itself or in the
\* statements of its block or of its function's body, unless the block or the
\* function binds the name anew
UsesOuter(s, name) ==
    \/ Mentions(s, name)
    \/ /\ s.Type = ScopeDeclaration
       /\ TimesDeclared(Elems(s.Children), name) = 0
       /\ \E k \in 1..Len(Elems(s.Children)) : Mentions(Elems(s.Children)[k], name)
    \/ /\ s.Type = FunctionDeclaration /\ ~s.Native /\ s.RunScope # Nil
       /\ \A i \in 1..Len(s.ArgNames) : s.ArgNames[i] # name
       /\ TimesDeclared(Elems(s.RunScope.Children), name) = 0
       /\ \E k \in 1..Len(Elems(s.RunScope.Children)) :
              Mentions(Elems(s.RunScope.Children)[k], name)

\* C27: a global variable that is used, after its declaration, inside a
\* function body or a block counts as used: it is not reported as unused,
\* and its MemoryDeAllocation does not stand before a statement that uses it
\* in its body or block.
C27_NestedUseCounts ==
    \A name \in VariableNames :
        (Grown /\ TimesDeclared(Given, name) = 1
           /\ Cardinality({k \in 1..Len(Given) : UsesOuter(Given[k], name)}) >= 2)
          => /\ ~ctxOut.ok => ctxOut.err.message # "Unused variable " \o name
             /\ ctxOut.ok =>
                    \A k \in 1..Len(Annotated) :
                        FreeOf(Annotated[k], name) =>
                            \A j \in (k + 1)..Len(Annotated) : ~UsesOuter(Annotated[j], name)

-----------------------------------------------------------------------------
(***************************************************************************)
(* Number tokens (lexer.go 150-159, 423-450)                               *)
(***************************************************************************)

\* the places of the lexeme that hold one of the characters
PlacesOf(lexeme, characters) ==
    {i \in 1..Len(lexeme) : SubSeq(lexeme, i, i) \in characters}

\* an optional leading -, digits and at most one ., with a digit at least
NumberLexeme(lexeme) ==
    /\ PlacesOf(lexeme, Digits \cup {".", "-"}) = 1..Len(lexeme)
    /\ PlacesOf(lexeme, {"-"}) \subseteq {1}
    /\ Cardinality(PlacesOf(lexeme, {"."})) <= 1
    /\ PlacesOf(lexeme, Digits) # {}

\* C28: every Number token has a lexeme of an optional leading -, digits and
\* at most one ., with at least one digit; a - or . that no digit follows is
\* not emitted as a Number.
C28_NumberTokensAreNumbers ==
    \A k \in 1..Len(tokens) :
        tokens[k].Type = "Number" => NumberLexeme(tokens[k].Value)

-----------------------------------------------------------------------------
(***************************************************************************)
(* Line comments and the token stream (lexer.go 107-139, 161-164)          *)
(***************************************************************************)

\* the source from rune i on without its // comments: the comment text goes,
\* the line feed that ends it stays
RECURSIVE WithoutLineComments(_, _, _)
WithoutLineComments(t, i, inComment) ==
    IF i >= Len(t) THEN <<>>
    ELSE IF inComment
        THEN IF at(t, i) = "\n" THEN <<"\n">> \o WithoutLineComments(t, i + 1, FALSE)
             ELSE WithoutLineComments(t, i + 1, TRUE)
    ELSE IF at(t, i) = "/" /\ at(t, i + 1) = "/" THEN WithoutLineComments(t, i + 2, TRUE)
    ELSE <<at(t, i)>> \o WithoutLineComments(t, i + 1, FALSE)

\* Tokenize run to its end on the source t from the scanner state s
RECURSIVE Tokenized(_, _, _)
Tokenized(t, s, late) ==
    IF s.index >= Len(t)
        THEN tokenizeEnd(t, [identifier |-> s.identifier, tokens |-> s.tokens])
    ELSE LET r == scanOnce(t, s, late) IN
         IF r.err THEN <<>>
         ELSE Tokenized(t, [index |-> r.index, identifier |-> r.identifier,
                            isComment |-> r.isComment, tokens |-> r.tokens], late)

\* the types and the values of the tokens
TypesAndValues(toks) == [k \in 1..Len(toks) |-> <<toks[k].Type, toks[k].Value>>]

\* C29: a // comment is transparent to the token stream: a source without
\* block comments gives the tokens of the same source with the text of its
\* // comments removed and their line feeds kept.
C29_LineCommentTransparent ==
    (lexState = "done" /\ \A k \in 1..Len(text) : text[k] # "*") =>
        TypesAndValues(tokens)
          = TypesAndValues(Tokenized(WithoutLineComments(text, 0, FALSE),
                                     [index |-> 0, identifier |-> <<>>,
                                      isComment |-> 0, tokens |-> <<>>], lateRead))

-----------------------------------------------------------------------------
(***************************************************************************)
(* Termination of ParseTokens (parser.go 25-97, 119-141, 789-977,          *)
(* 1018-1068)                                                              *)
(***************************************************************************)

\* the longest tail of arbitrary tokens after an opening
MaxTail == 3

\* the tokens a tail is made of
TailAlphabet ==
    {P("Var"), P("Function"), Id("a"), Num("1"), P("Equals"), P("Addition"),
     P("OpenParenthesis"), P("CloseParenthesis"), P("OpenCurlyBracket"),
     P("CloseCurlyBracket"), P("Comma"), P("LF"), P("EOF")}

\* the openings: nothing, and the token strings that bring the parser into
\* each of its loops (scope, parameters, return types, function body, declared
\* types, initialisers, operators, identifiers, imports)
Openings ==
    << <<>>,
       <<P("OpenCurlyBracket")>>,
       <<P("Function"), Id("a"), P("OpenParenthesis")>>,
       <<P("Function"), Id("a"), P("OpenParenthesis"), P("CloseParenthesis"),
         P("ArrowRight"), P("OpenParenthesis")>>,
       <<P("Function"), Id("a"), P("OpenParenthesis"), P("CloseParenthesis"),
         P("OpenCurlyBracket")>>,
       <<P("Var"), Id("a"), P("Colon"), P("OpenParenthesis")>>,
       <<P("Var"), Id("a"), P("Equals"), P("OpenParenthesis")>>,
       <<P("Var"), P("OpenParenthesis")>>,
       <<Id("a"), P("Equals"), Num("1"), P("Multiplication")>>,
       <<P("Import"), P("OpenParenthesis")>> >>

\* ParseTokens is about to run on an opening followed by any tail: the tail
\* may close what is open, leave it open at an EOF token, or stop short of one
InitTokens ==
    /\ CtxIdle
    /\ LexIdle
    /\ \E o \in 1..Len(Openings) : \E n \in 0..MaxTail :
       \E tail \in [1..n -> TailAlphabet] :
          ptokens = TokensOf(Openings[o] \o tail)
    /\ parseState = "program"
    /\ parseOut = NoErr

SpecTokens == InitTokens /\ [][ParseTokensStep]_vars

\* the call that started with the cursor at i returned an error, or moved the
\* cursor forward and not beyond the end of the tokens
Advanced(r, i, toks) == r.ok => (i < r.index /\ r.index <= Len(toks))

\* one iteration of each loop of the parser, and each loop from its start,
\* with the cursor at i
IterationsAdvance(toks, i) ==
    /\ Advanced(parseStatement(toks, i, <<>>), i, toks)
    /\ Advanced(parseScope(toks, i, <<>>), i, toks)
    /\ Advanced(parseExpression(toks, i, <<>>), i, toks)
    /\ Advanced(fnArgsLoop(toks, i, <<>>, <<>>), i, toks)
    /\ Advanced(fnReturnTypesLoop(toks, i, <<>>), i, toks)
    /\ Advanced(typeListLoop(toks, i, <<>>, <<>>), i, toks)
    /\ Advanced(expressionListLoop(toks, i, <<>>, <<>>, "Unexpected token"), i, toks)
    /\ Advanced(identifierListLoop(toks, i, <<>>, pat(toks, i - 1), <<>>), i, toks)
    /\ Advanced(multiGetLoop(toks, i, <<>>, <<>>), i, toks)

\* the loops whose iteration reads a statement or a list item, which the EOF
\* token and the end of the tokens must answer with an error
ItemsFail(toks, i) ==
    /\ ~parseStatement(toks, i, <<>>).ok
    /\ ~parseExpression(toks, i, <<>>).ok
    /\ ~fnArgsLoop(toks, i, <<>>, <<>>).ok
    /\ ~fnReturnTypesLoop(toks, i, <<>>).ok
    /\ ~typeListLoop(toks, i, <<>>, <<>>).ok
    /\ ~expressionListLoop(toks, i, <<>>, <<>>, "Unexpected token").ok
    /\ ~identifierListLoop(toks, i, <<>>, pat(toks, i - 1), <<>>).ok
    /\ ~multiGetLoop(toks, i, <<>>, <<>>).ok

\* C30: ParseTokens terminates on every finite token sequence: at every cursor,
\* past the end included, an iteration of the statement, scope, parameter,
\* type, expression and operator loops returns an error or moves the cursor
\* forward within the tokens; at the EOF token and past the end it returns an
\* error; and ParseTokens itself returns, with an error or with the cursor
\* stopped at the EOF token or at the end
C30_EveryIterationConsumesOrFails ==
    /\ \A i \in 0..(Len(ptokens) + 1) :
          /\ IterationsAdvance(ptokens, i)
          /\ pIsDone(ptokens, i) => ItemsFail(ptokens, i)
    /\ parseState = "programDone" =>
          /\ parseOut.ok \/ parseOut.err # NoErr
          /\ parseOut.ok =>
                pIsDone(ptokens, parseOut.index) /\ parseOut.index <= Len(ptokens)

\* a scope that is still open at the EOF token is answered with an error
C30_Witness ==
    /\ parseState = "programDone"
    /\ ptokens = TokensOf(<<P("OpenCurlyBracket"), P("LF"), P("EOF")>>)
    /\ ~parseOut.ok
    /\ parseOut.err.message = "Unexpected token, statement expected"


====
